---- MODULE Spec2Model ----
(***************************************************************************)
(* The n8n DSL compiler: the Lexer and the Parser on source texts, the AST *)
(* pass and the graph pass of the Validator, the Generator (bindings,      *)
(* expression and template evaluation, layout, connections) and            *)
(* Compiler.compile, as a state machine.                                   *)
(*                                                                         *)
(* A JavaScript string value is a sequence of one-character strings, so    *)
(* that the template regex, trim and String() are computed, not assumed.   *)
(* Identifiers of the DSL (node, parameter and variable names) are one     *)
(* character long in this model, so the string of a name n is <<n>>.       *)
(***************************************************************************)
EXTENDS Integers, Sequences, FiniteSets, TLC

VARIABLES
  ast,          \* the Program the parser has built from the source so far
  options,      \* CompilerOptions / GeneratorOptions of the instances
  result,       \* the CompilerResult of the last Compiler.compile call
  prevResult,   \* the CompilerResult of the compile call before that
  generator,    \* a Generator instance kept by the caller (its private fields)
  generated,    \* what the last generate call on that instance returned
  validator,    \* a Validator instance kept by the caller (its errors array)
  returned,     \* the arrays earlier validateProgram calls returned
  clock,        \* the wall clock read by new Date()
  nextId,       \* how many opaque ids Math.random has produced so far
  calls,        \* number of compile/generate/validate calls made so far
  input,        \* the source text a Lexer or a Parser is constructed on
  lexer,        \* what Lexer.tokenize returned or threw on that text
  parser        \* that Parser: its tokens, and what parse() returned or threw

vars == <<ast, options, result, prevResult, generator, generated, validator,
          returned, clock, nextId, calls, input, lexer, parser>>

-----------------------------------------------------------------------------
(* Bounds of the model *)

MaxDecls == 3
MaxCalls == 2
MaxClock == 1
MaxConns == 3
MaxInput == 4
MaxEntries == 3
MaxLines == 2
MaxSourceLines == 3

-----------------------------------------------------------------------------
(* JavaScript values *)

Undefined == [ty |-> "undefined", s |-> <<>>, n |-> 0, b |-> FALSE]
JSString(s) == [ty |-> "string", s |-> s, n |-> 0, b |-> FALSE]
JSNumber(n) == [ty |-> "number", s |-> <<>>, n |-> n, b |-> FALSE]
JSBoolean(b) == [ty |-> "boolean", s |-> <<>>, n |-> 0, b |-> b]

\* JavaScript truthiness, as used by `a || b` and `if (a)`
Truthy(v) ==
  CASE v.ty = "undefined" -> FALSE
    [] v.ty = "string" -> v.s # <<>>
    [] v.ty = "number" -> v.n # 0
    [] v.ty = "boolean" -> v.b
    [] OTHER -> TRUE

Digit(d) ==
  CASE d = 0 -> "0" [] d = 1 -> "1" [] d = 2 -> "2" [] d = 3 -> "3"
    [] d = 4 -> "4" [] d = 5 -> "5" [] d = 6 -> "6" [] d = 7 -> "7"
    [] d = 8 -> "8" [] OTHER -> "9"

RECURSIVE Digits(_)
Digits(n) == IF n < 10 THEN <<Digit(n)>> ELSE Digits(n \div 10) \o <<Digit(n % 10)>>

\* String(value)
ToJSString(v) ==
  CASE v.ty = "string" -> v.s
    [] v.ty = "number" -> IF v.n < 0 THEN <<"-">> \o Digits(0 - v.n) ELSE Digits(v.n)
    [] v.ty = "boolean" -> IF v.b THEN <<"t", "r", "u", "e">> ELSE <<"f", "a", "l", "s", "e">>
    [] OTHER -> <<"u", "n", "d", "e", "f", "i", "n", "e", "d">>

\* new Date().toISOString(): a rendering of the clock, different at different times
toISOString(t) == <<"T">> \o Digits(t)

\* process.env: the environment of the process, fixed while it runs
ProcessEnv == [k \in {<<"H">>} |-> <<"h">>]

-----------------------------------------------------------------------------
(* String helpers *)

StartsWith(s, p) == Len(s) >= Len(p) /\ SubSeq(s, 1, Len(p)) = p

Includes(s, p) == \E i \in 1..Len(s) : i + Len(p) - 1 <= Len(s) /\ SubSeq(s, i, i + Len(p) - 1) = p

IsSpace(c) == c \in {" ", "\t", "\n", "\r"}

\* String.prototype.trim
Trim(s) ==
  IF \A i \in 1..Len(s) : IsSpace(s[i]) THEN <<>>
  ELSE LET first == CHOOSE i \in 1..Len(s) : ~IsSpace(s[i]) /\ \A j \in 1..(i - 1) : IsSpace(s[j])
           last == CHOOSE i \in 1..Len(s) : ~IsSpace(s[i]) /\ \A j \in (i + 1)..Len(s) : IsSpace(s[j])
       IN SubSeq(s, first, last)

\* the string of a DSL identifier: the model's identifiers are one character long,
\* but for `constructor`
NameString(name) ==
  IF name = "constructor" THEN <<"c", "o", "n", "s", "t", "r", "u", "c", "t", "o", "r">>
  ELSE <<name>>

\* Map.has / Map.get with a string key, on a map keyed by identifiers
MapHas(map, key) == \E k \in DOMAIN map : NameString(k) = key
MapGet(map, key) == map[CHOOSE k \in DOMAIN map : NameString(k) = key]

-----------------------------------------------------------------------------
(* Expressions, as the parser builds them *)

LiteralExpr(v) == [type |-> "LiteralExpression", value |-> v, name |-> "", template |-> <<>>]
IdentifierExpr(n) == [type |-> "IdentifierExpression", value |-> Undefined, name |-> n, template |-> <<>>]
TemplateExpr(t) == [type |-> "TemplateExpression", value |-> Undefined, name |-> "", template |-> t]

DigitValue(c) ==
  CASE c = "0" -> 0 [] c = "1" -> 1 [] c = "2" -> 2 [] c = "3" -> 3 [] c = "4" -> 4
    [] c = "5" -> 5 [] c = "6" -> 6 [] c = "7" -> 7 [] c = "8" -> 8 [] OTHER -> 9

\* parseFloat of an integer NUMBER token
RECURSIVE parseFloat(_)
parseFloat(s) ==
  IF s = <<>> THEN 0 ELSE 10 * parseFloat(SubSeq(s, 1, Len(s) - 1)) + DigitValue(s[Len(s)])

\* Parser.parseTemplateExpression / parsePrimary on a one-token expression
parseExpression(token) ==
  CASE token.type = "STRING" ->
         IF Includes(token.value, <<"$", "{">>) THEN TemplateExpr(token.value)
         ELSE LiteralExpr(JSString(token.value))
    [] token.type = "NUMBER" -> LiteralExpr(JSNumber(parseFloat(token.value)))
    [] token.type = "BOOLEAN" -> LiteralExpr(JSBoolean(token.value = <<"t", "r", "u", "e">>))
    [] OTHER -> IdentifierExpr(token.value[1])

Token(type, value) == [type |-> type, value |-> value]

-----------------------------------------------------------------------------
(* Generator: fields, bindings, expression and template evaluation *)

EmptyMap == [k \in {} |-> Undefined]
MapSet(map, k, v) == [x \in (DOMAIN map) \cup {k} |-> IF x = k THEN v ELSE map[x]]

\* new Generator(options)
NewGenerator(opts) ==
  [options |-> opts,
   parameters |-> EmptyMap,
   variables |-> EmptyMap,
   nodePositions |-> EmptyMap,
   currentPosition |-> opts.startPosition]

\* the argument of env('...') in a template span, or "" when the regex does not match
EnvArgument(trimmed) ==
  LET quotes == {"'", "\""}
      starts == {i \in 1..Len(trimmed) :
                   /\ i + 5 <= Len(trimmed)
                   /\ SubSeq(trimmed, i, i + 3) = <<"e", "n", "v", "(">>
                   /\ trimmed[i + 4] \in quotes
                   /\ trimmed[i + 5] \notin quotes
                   /\ \E j \in (i + 6)..Len(trimmed) :
                        /\ trimmed[j] \in quotes
                        /\ \A k \in (i + 5)..(j - 1) : trimmed[k] \notin quotes
                        /\ j + 1 <= Len(trimmed) /\ trimmed[j + 1] = ")"}
  IN IF starts = {} THEN <<>>
     ELSE LET i == CHOOSE a \in starts : \A b \in starts : a <= b
              j == CHOOSE c \in (i + 6)..Len(trimmed) :
                     trimmed[c] \in quotes /\ \A k \in (i + 5)..(c - 1) : trimmed[k] \notin quotes
          IN SubSeq(trimmed, i + 5, j - 1)

\* ResolveSpan, were the parameters looked up before the variables
ResolveSpanParametersFirst(match, varName, g, t) ==
  LET trimmed == Trim(varName)
  IN IF MapHas(g.parameters, trimmed)
       THEN LET param == MapGet(g.parameters, trimmed)
            IN IF Truthy(param.defaultValue) THEN ToJSString(param.defaultValue) ELSE <<>>
     ELSE IF MapHas(g.variables, trimmed) THEN ToJSString(MapGet(g.variables, trimmed))
     ELSE IF StartsWith(trimmed, <<"n", "o", "w", "(">>) THEN toISOString(t)
     ELSE IF StartsWith(trimmed, <<"e", "n", "v", "(">>)
       THEN LET envVar == EnvArgument(trimmed)
            IN IF envVar \in DOMAIN ProcessEnv THEN ProcessEnv[envVar] ELSE <<>>
     ELSE match

\* ResolveSpan, were a span that resolves to nothing rendered as the time
ResolveSpanStamped(match, varName, g, t) ==
  LET trimmed == Trim(varName)
  IN IF MapHas(g.variables, trimmed) THEN ToJSString(MapGet(g.variables, trimmed))
     ELSE IF MapHas(g.parameters, trimmed)
       THEN LET param == MapGet(g.parameters, trimmed)
            IN IF Truthy(param.defaultValue) THEN ToJSString(param.defaultValue) ELSE <<>>
     ELSE IF StartsWith(trimmed, <<"e", "n", "v", "(">>)
       THEN LET envVar == EnvArgument(trimmed)
            IN IF envVar \in DOMAIN ProcessEnv THEN ProcessEnv[envVar] ELSE <<>>
     ELSE toISOString(t)

\* the replacement callback of evaluateTemplate for one ${...} match
ResolveSpan(match, varName, g, t) ==
  LET trimmed == Trim(varName)
  IN IF MapHas(g.variables, trimmed) THEN ToJSString(MapGet(g.variables, trimmed))
     ELSE IF MapHas(g.parameters, trimmed)
       THEN LET param == MapGet(g.parameters, trimmed)
            IN IF Truthy(param.defaultValue) THEN ToJSString(param.defaultValue) ELSE <<>>
     ELSE IF StartsWith(trimmed, <<"n", "o", "w", "(">>) THEN toISOString(t)
     ELSE IF StartsWith(trimmed, <<"e", "n", "v", "(">>)
       THEN LET envVar == EnvArgument(trimmed)
            IN IF envVar \in DOMAIN ProcessEnv THEN ProcessEnv[envVar] ELSE <<>>
     ELSE match

\* template.replace(/\$\{([^}]+)\}/g, callback), scanning from position i
RECURSIVE ReplaceFrom(_, _, _, _)
ReplaceFrom(s, i, g, t) ==
  IF i > Len(s) THEN <<>>
  ELSE LET closers == {j \in (i + 3)..Len(s) : s[j] = "}"}
           matches == /\ i + 2 <= Len(s)
                      /\ s[i] = "$" /\ s[i + 1] = "{" /\ s[i + 2] # "}"
                      /\ closers # {}
       IN IF matches
          THEN LET j == CHOOSE a \in closers : \A b \in closers : a <= b
               IN ResolveSpan(SubSeq(s, i, j), SubSeq(s, i + 2, j - 1), g, t)
                    \o ReplaceFrom(s, j + 1, g, t)
          ELSE <<s[i]>> \o ReplaceFrom(s, i + 1, g, t)

evaluateTemplate(template, g, t) == ReplaceFrom(template, 1, g, t)

\* evaluateExpression, were the parameters looked up before the variables
evaluateExpressionParametersFirst(expr, g, t) ==
  CASE expr.type = "LiteralExpression" -> expr.value
    [] expr.type = "IdentifierExpression" ->
         IF expr.name \in DOMAIN g.parameters THEN g.parameters[expr.name].defaultValue
         ELSE IF expr.name \in DOMAIN g.variables THEN g.variables[expr.name]
         ELSE JSString(NameString(expr.name))
    [] OTHER -> JSString(evaluateTemplate(expr.template, g, t))

evaluateExpression(expr, g, t) ==
  CASE expr.type = "LiteralExpression" -> expr.value
    [] expr.type = "IdentifierExpression" ->
         IF expr.name \in DOMAIN g.variables THEN g.variables[expr.name]
         ELSE IF expr.name \in DOMAIN g.parameters THEN g.parameters[expr.name].defaultValue
         ELSE JSString(NameString(expr.name))
    [] OTHER -> JSString(evaluateTemplate(expr.template, g, t))

-----------------------------------------------------------------------------
(* The AST (types/dsl.ts) *)

NoExpression == LiteralExpr(Undefined)

\* the line and column of a declaration are those the Parser reads from a token of
\* the source text; they are 0 in a declaration that is built without a text, and
\* in a ValidationError that is pushed without a position
At(node, position) == [node EXCEPT !.line = position.line, !.column = position.column]

ParameterDeclaration(name, paramType, hasDefault, defaultValue) ==
  [type |-> "ParameterDeclaration", name |-> name, paramType |-> paramType,
   hasDefault |-> hasDefault,
   defaultValue |-> IF hasDefault THEN defaultValue ELSE NoExpression,
   required |-> ~hasDefault, line |-> 0, column |-> 0]

VariableDeclaration(name, value) ==
  [type |-> "VariableDeclaration", name |-> name, value |-> value, line |-> 0, column |-> 0]

NodeDeclaration(name, nodeType, parameters) ==
  [type |-> "NodeDeclaration", name |-> name, nodeType |-> nodeType,
   modulePath |-> "", parameters |-> parameters, line |-> 0, column |-> 0]

ModuleDeclaration(name, modulePath, parameters) ==
  [type |-> "ModuleDeclaration", name |-> name, nodeType |-> "",
   modulePath |-> modulePath, parameters |-> parameters, line |-> 0, column |-> 0]

ConnectionDeclaration(sourceNode, sourceOutput, targetNode, targetInput) ==
  [type |-> "ConnectionDeclaration",
   source |-> [node |-> sourceNode, output |-> sourceOutput],
   target |-> [node |-> targetNode, input |-> targetInput], line |-> 0, column |-> 0]

\* the workflow of a Program; parsed is set once parseWorkflow has returned it
EmptyWorkflowDeclaration ==
  [name |-> "w", parameters |-> <<>>, variables |-> <<>>, nodes |-> <<>>,
   connections |-> <<>>, parsed |-> FALSE]

\* obj[key] = value on an object kept as its list of entries, in insertion order
ObjSet(obj, key, value) ==
  IF \E i \in 1..Len(obj) : obj[i].key = key
  THEN [i \in 1..Len(obj) |-> IF obj[i].key = key THEN [key |-> key, value |-> value] ELSE obj[i]]
  ELSE Append(obj, [key |-> key, value |-> value])

ObjHas(obj, key) == \E i \in 1..Len(obj) : obj[i].key = key
ObjGet(obj, key) ==
  IF ObjHas(obj, key) THEN obj[CHOOSE i \in 1..Len(obj) : obj[i].key = key].value ELSE Undefined

\* DSL_TO_N8N_NODE_TYPES
DSL_TO_N8N_NODE_TYPES ==
  [k \in {"trigger.manual", "trigger.schedule", "trigger.webhook", "trigger.form",
          "data.set", "data.transform", "flow.if", "flow.switch", "flow.splitOut",
          "flow.aggregate", "http.request", "integration.email", "integration.slack",
          "integration.sheets", "util.note", "util.noop"} |->
     CASE k = "trigger.manual" -> "n8n-nodes-base.manualTrigger"
       [] k = "trigger.schedule" -> "n8n-nodes-base.scheduleTrigger"
       [] k = "trigger.webhook" -> "n8n-nodes-base.webhook"
       [] k = "trigger.form" -> "n8n-nodes-base.formTrigger"
       [] k = "data.set" -> "n8n-nodes-base.set"
       [] k = "data.transform" -> "n8n-nodes-base.code"
       [] k = "flow.if" -> "n8n-nodes-base.if"
       [] k = "flow.switch" -> "n8n-nodes-base.switch"
       [] k = "flow.splitOut" -> "n8n-nodes-base.splitOut"
       [] k = "flow.aggregate" -> "n8n-nodes-base.aggregate"
       [] k = "http.request" -> "n8n-nodes-base.httpRequest"
       [] k = "integration.email" -> "n8n-nodes-base.gmail"
       [] k = "integration.slack" -> "n8n-nodes-base.slack"
       [] k = "integration.sheets" -> "n8n-nodes-base.googleSheets"
       [] k = "util.note" -> "n8n-nodes-base.stickyNote"
       [] OTHER -> "n8n-nodes-base.noOp"]

\* DEFAULT_TYPE_VERSIONS, the versions as their decimal text
DEFAULT_TYPE_VERSIONS ==
  [k \in {"n8n-nodes-base.manualTrigger", "n8n-nodes-base.scheduleTrigger",
          "n8n-nodes-base.webhook", "n8n-nodes-base.formTrigger", "n8n-nodes-base.set",
          "n8n-nodes-base.code", "n8n-nodes-base.if", "n8n-nodes-base.switch",
          "n8n-nodes-base.httpRequest", "n8n-nodes-base.gmail",
          "n8n-nodes-base.googleSheets", "n8n-nodes-base.stickyNote",
          "n8n-nodes-base.noOp"} |->
     CASE k = "n8n-nodes-base.scheduleTrigger" -> "1.2"
       [] k = "n8n-nodes-base.webhook" -> "2"
       [] k = "n8n-nodes-base.formTrigger" -> "2.2"
       [] k = "n8n-nodes-base.set" -> "3.4"
       [] k = "n8n-nodes-base.code" -> "2"
       [] k = "n8n-nodes-base.if" -> "2.2"
       [] k = "n8n-nodes-base.httpRequest" -> "4.2"
       [] k = "n8n-nodes-base.gmail" -> "2.1"
       [] k = "n8n-nodes-base.googleSheets" -> "4.6"
       [] OTHER -> "1"]

\* The tables are plain objects: a property read also finds what they inherit
\* from Object.prototype, and every inherited property is a truthy value.
ObjectPrototypeKeys ==
  {"constructor", "toString", "toLocaleString", "valueOf", "hasOwnProperty",
   "isPrototypeOf", "propertyIsEnumerable", "__proto__"}

InheritedValue(key) == "[inherited " \o key \o "]"

\* table[key] for a table that is a plain object; "" stands for undefined
PropertyRead(table, key) ==
  IF key \in DOMAIN table THEN table[key]
  ELSE IF key \in ObjectPrototypeKeys THEN InheritedValue(key)
  ELSE ""

-----------------------------------------------------------------------------
(* Node templates (generator/nodeTemplates.ts). The parameter values of this  *)
(* model are strings, numbers, booleans and undefined; a mapped parameter whose  *)
(* value is an object is a record with ty "object" and the object's fields.      *)

\* a || b
OrElse(a, b) == IF Truthy(a) THEN a ELSE b

\* what mapParameters returns and how many ids generateId made for it, or that it
\* threw a TypeError
Mapped(value, ids) == [threw |-> FALSE, value |-> value, ids |-> ids]
Thrown == [threw |-> TRUE, value |-> <<>>, ids |-> 0]

\* Object.entries(value).map(([name, value]) => ({name, value: String(value)})): a
\* string has one entry for each of its characters, a number or a boolean has none
NameValues(value) ==
  IF value.ty = "string"
  THEN [i \in 1..Len(value.s) |-> [name |-> Digits(i - 1), value |-> <<value.s[i]>>]]
  ELSE <<>>

\* HttpRequestTemplate.mapParameters; `typeof params.headers === 'object'` is false
\* for every value of this model
HttpRequestTemplate(params) ==
  Mapped(<<[key |-> "method", value |-> OrElse(ObjGet(params, "method"), JSString(<<"G", "E", "T">>))],
           [key |-> "url", value |-> OrElse(ObjGet(params, "url"), JSString(<<>>))]>>
         \o (IF Truthy(ObjGet(params, "body"))
             THEN <<[key |-> "sendBody", value |-> JSBoolean(TRUE)],
                    [key |-> "bodyParameters",
                     value |-> [ty |-> "object",
                                parameters |-> NameValues(ObjGet(params, "body"))]]>>
             ELSE <<>>),
         0)

\* {...base, ...params}
RECURSIVE Spread(_, _)
Spread(base, params) ==
  IF params = <<>> THEN base
  ELSE Spread(ObjSet(base, Head(params).key, Head(params).value), Tail(params))

\* GmailTemplate.mapParameters
GmailTemplate(params) ==
  Mapped(Spread(<<[key |-> "operation", value |-> JSString(<<"s", "e", "n", "d">>)],
                  [key |-> "sendTo", value |-> OrElse(ObjGet(params, "to"), JSString(<<>>))],
                  [key |-> "subject",
                   value |-> OrElse(ObjGet(params, "subject"), JSString(<<>>))],
                  [key |-> "message", value |-> OrElse(ObjGet(params, "body"), JSString(<<>>))],
                  [key |-> "emailType",
                   value |-> OrElse(ObjGet(params, "bodyType"), JSString(<<"t", "e", "x", "t">>))]>>,
                params),
         0)

\* the comparison operators of comparisonRegex, in the order of its alternation
ComparisonOperators == <<">=", "<=", ">", "<", "==", "!=">>

\* the characters of a comparison operator
OperatorText(op) ==
  CASE op = ">=" -> <<">", "=">> [] op = "<=" -> <<"<", "=">> [] op = ">" -> <<">">>
    [] op = "<" -> <<"<">> [] op = "==" -> <<"=", "=">> [] OTHER -> <<"!", "=">>

\* the end of the whitespace that starts at p: what a greedy \s* takes
RECURSIVE SkipSpace(_, _)
SkipSpace(s, p) == IF p <= Len(s) /\ IsSpace(s[p]) THEN SkipSpace(s, p + 1) ELSE p

\* `.` matches every character but a line terminator
Dot(c) == c \notin {"\n", "\r"}

\* where (.+) can start after the operator that ends before q: \s* gives whitespace
\* back until one character is left for it
RestStarts(s, q) == {r \in q..SkipSpace(s, q) : r <= Len(s) /\ Dot(s[r])}

\* the last character a greedy (.+) takes from r
RECURSIVE LineEnd(_, _)
LineEnd(s, r) == IF r + 1 <= Len(s) /\ Dot(s[r + 1]) THEN LineEnd(s, r + 1) ELSE r

\* the attempts of /(.+?)\s*(>=|<=|>|<|==|!=)\s*(.+)/ that match: the start i, the
\* length n of the lazy (.+?), the alternative k; an operator starts with no
\* whitespace, so the first \s* takes all the whitespace there is
ComparisonAttempts(s) ==
  {a \in (1..Len(s)) \X (1..Len(s)) \X (1..Len(ComparisonOperators)) :
     /\ a[1] + a[2] - 1 <= Len(s)
     /\ \A j \in a[1]..(a[1] + a[2] - 1) : Dot(s[j])
     /\ LET at == SkipSpace(s, a[1] + a[2])
            text == OperatorText(ComparisonOperators[a[3]])
        IN /\ at + Len(text) - 1 <= Len(s)
           /\ SubSeq(s, at, at + Len(text) - 1) = text
           /\ RestStarts(s, at + Len(text)) # {}}

\* the groups of the attempt the regex engine finds first
ComparisonGroups(s, a) ==
  [matched |-> TRUE,
   leftValue |-> SubSeq(s, a[1], a[1] + a[2] - 1),
   operator |-> ComparisonOperators[a[3]],
   rightValue |->
     LET q == SkipSpace(s, a[1] + a[2]) + Len(OperatorText(ComparisonOperators[a[3]]))
         r == CHOOSE x \in RestStarts(s, q) : \A y \in RestStarts(s, q) : y <= x
     IN SubSeq(s, r, LineEnd(s, r))]

\* condition.match(comparisonRegex): the leftmost start, the shortest (.+?), the
\* first alternative
comparisonRegex(s) ==
  IF ComparisonAttempts(s) = {}
  THEN [matched |-> FALSE, leftValue |-> <<>>, operator |-> "", rightValue |-> <<>>]
  ELSE ComparisonGroups(s,
         CHOOSE a \in ComparisonAttempts(s) :
           \A b \in ComparisonAttempts(s) :
             \/ a[1] < b[1]
             \/ a[1] = b[1] /\ a[2] < b[2]
             \/ a[1] = b[1] /\ a[2] = b[2] /\ a[3] <= b[3])

\* IfTemplate.mapOperator, were >= and > exchanged
mapOperatorExchanged(op) ==
  CASE op = "==" -> "equal" [] op = "!=" -> "notEqual" [] op = ">" -> "largerEqual"
    [] op = "<" -> "smaller" [] op = ">=" -> "larger" [] op = "<=" -> "smallerEqual"
    [] OTHER -> "equal"

\* IfTemplate.mapOperator
mapOperator(op) ==
  CASE op = "==" -> "equal" [] op = "!=" -> "notEqual" [] op = ">" -> "larger"
    [] op = "<" -> "smaller" [] op = ">=" -> "largerEqual" [] op = "<=" -> "smallerEqual"
    [] OTHER -> "equal"

\* !isNaN(Number(value)) on a text without sign, point, exponent or radix prefix:
\* the empty text is 0 and a text of decimal digits is that number
IsNumeric(value) ==
  \A i \in 1..Len(value) : value[i] \in {"0", "1", "2", "3", "4", "5", "6", "7", "8", "9"}

\* IfTemplate.getOperatorType
getOperatorType(value) ==
  IF IsNumeric(value) THEN "number"
  ELSE IF value \in {<<"t", "r", "u", "e">>, <<"f", "a", "l", "s", "e">>} THEN "boolean"
  ELSE "string"

\* the conditions parameter of an If node
Conditions(conditions, combinator) ==
  <<[key |-> "conditions",
     value |-> [ty |-> "object",
                options |-> [caseSensitive |-> TRUE, leftValue |-> <<>>,
                             typeValidation |-> "strict"],
                conditions |-> conditions,
                combinator |-> combinator]]>>

\* IfTemplate.mapParameters once the regex has run
mapComparison(condition, match, id) ==
  IF match.matched
  THEN Mapped(Conditions(<<[id |-> id,
                            leftValue |-> Trim(match.leftValue),
                            rightValue |-> Trim(match.rightValue),
                            operator |-> [type |-> getOperatorType(Trim(match.rightValue)),
                                          operation |-> mapOperator(match.operator)]]>>,
                         "and"),
              1)
  ELSE Mapped(Conditions(<<[id |-> id,
                            leftValue |-> condition,
                            rightValue |-> <<"t", "r", "u", "e">>,
                            operator |-> [type |-> "boolean", operation |-> "equal"]]>>,
                         "and"),
              1)

\* IfTemplate.mapParameters; a condition that is truthy and no string has no
\* `match` method, and the call throws a TypeError
IfTemplate(params, id) ==
  IF OrElse(ObjGet(params, "condition"), JSString(<<>>)).ty # "string" THEN Thrown
  ELSE mapComparison(OrElse(ObjGet(params, "condition"), JSString(<<>>)).s,
                     comparisonRegex(OrElse(ObjGet(params, "condition"), JSString(<<>>)).s),
                     id)

\* s.split(separator) with a separator of one character
RECURSIVE split(_, _)
split(s, separator) ==
  IF \A i \in 1..Len(s) : s[i] # separator THEN <<s>>
  ELSE LET i == CHOOSE x \in 1..Len(s) : s[x] = separator /\ \A y \in 1..(x - 1) : s[y] # separator
       IN <<SubSeq(s, 1, i - 1)>> \o split(SubSeq(s, i + 1, Len(s)), separator)

\* the rule parameter of a Schedule Trigger node
Rule(interval) == <<[key |-> "rule", value |-> [ty |-> "object", interval |-> <<interval>>]]>>

\* ScheduleTriggerTemplate.mapParameters; a cron that is truthy and no string has no
\* `split` method, and the call throws a TypeError
ScheduleTriggerTemplate(params) ==
  IF ~Truthy(ObjGet(params, "cron"))
  THEN Mapped(Rule([field |-> "hours", hoursInterval |-> 1]), 0)
  ELSE IF ObjGet(params, "cron").ty # "string" THEN Thrown
  ELSE IF Len(split(ObjGet(params, "cron").s, " ")) >= 5
  THEN Mapped(Rule([field |-> "cronExpression", cronExpression |-> ObjGet(params, "cron").s]), 0)
  ELSE Mapped(Rule([field |-> "hours", hoursInterval |-> 1]), 0)

\* CodeTemplate.mapParameters
CodeTemplate(params) ==
  Mapped(<<[key |-> "mode", value |-> JSString(<<"r", "u", "n", "O", "n", "c", "e", "F", "o", "r", "A", "l", "l", "I", "t", "e", "m", "s">>)],
           [key |-> "jsCode",
            value |-> OrElse(ObjGet(params, "code"), JSString(<<"r", "e", "t", "u", "r", "n", " ", "i", "t", "e", "m", "s", ";">>))]>>,
         0)

\* SetTemplate.mapParameters; `typeof params.assignments === 'object'` is false for
\* every value of this model, so the list of assignments stays empty
SetTemplate(params) ==
  Mapped(<<[key |-> "assignments", value |-> [ty |-> "object", assignments |-> <<>>]],
           [key |-> "options", value |-> [ty |-> "object"]]>>,
         0)

\* ManualTriggerTemplate.mapParameters
ManualTriggerTemplate(params) == Mapped(<<>>, 0)

\* the node types NODE_TEMPLATES has a template for
NODE_TEMPLATES ==
  {"n8n-nodes-base.httpRequest", "n8n-nodes-base.gmail", "n8n-nodes-base.if",
   "n8n-nodes-base.scheduleTrigger", "n8n-nodes-base.code", "n8n-nodes-base.set",
   "n8n-nodes-base.manualTrigger"}

-----------------------------------------------------------------------------
(* Generator.generate *)

RECURSIVE processParametersFrom(_, _, _, _)
processParametersFrom(g, parameters, i, t) ==
  IF i > Len(parameters) THEN g
  ELSE LET param == parameters[i]
           defaultValue == IF param.hasDefault THEN evaluateExpression(param.defaultValue, g, t)
                           ELSE Undefined
           info == [type |-> param.paramType, defaultValue |-> defaultValue,
                    required |-> param.required]
       IN processParametersFrom([g EXCEPT !.parameters = MapSet(@, param.name, info)],
                                parameters, i + 1, t)

processParameters(g, parameters, t) == processParametersFrom(g, parameters, 1, t)

RECURSIVE processVariablesFrom(_, _, _, _)
processVariablesFrom(g, variables, i, t) ==
  IF i > Len(variables) THEN g
  ELSE LET value == evaluateExpression(variables[i].value, g, t)
       IN processVariablesFrom([g EXCEPT !.variables = MapSet(@, variables[i].name, value)],
                               variables, i + 1, t)

processVariables(g, variables, t) == processVariablesFrom(g, variables, 1, t)

\* mapNodeType: "" when it throws `Unknown node type`
mapNodeType(dslType) == PropertyRead(DSL_TO_N8N_NODE_TYPES, dslType)

\* getNodePosition, were a node put at the cursor when autoLayout is off
getNodePositionAtCursor(g, nodeName) ==
  IF nodeName \in DOMAIN g.nodePositions
  THEN [position |-> g.nodePositions[nodeName], generator |-> g]
  ELSE IF g.options.autoLayout
  THEN [position |-> g.currentPosition,
        generator |-> [g EXCEPT !.nodePositions = MapSet(@, nodeName, g.currentPosition),
                                !.currentPosition = <<@[1] + g.options.spacing, @[2]>>]]
  ELSE [position |-> g.currentPosition, generator |-> g]

\* getNodePosition: the position and the Generator afterwards
getNodePosition(g, nodeName) ==
  IF nodeName \in DOMAIN g.nodePositions
  THEN [position |-> g.nodePositions[nodeName], generator |-> g]
  ELSE IF g.options.autoLayout
  THEN [position |-> g.currentPosition,
        generator |-> [g EXCEPT !.nodePositions = MapSet(@, nodeName, g.currentPosition),
                                !.currentPosition = <<@[1] + g.options.spacing, @[2]>>]]
  ELSE [position |-> <<0, 0>>, generator |-> g]

RECURSIVE rawParametersFrom(_, _, _, _, _)
rawParametersFrom(parameters, i, raw, g, t) ==
  IF i > Len(parameters) THEN raw
  ELSE rawParametersFrom(parameters, i + 1,
         ObjSet(raw, parameters[i].key, evaluateExpression(parameters[i].value, g, t)), g, t)

\* getNodeTemplate(nodeType).mapParameters(rawParams), or rawParams without a
\* template; id is the id generateId makes next
mapParameters(nodeType, rawParams, id) ==
  CASE nodeType = "n8n-nodes-base.httpRequest" -> HttpRequestTemplate(rawParams)
    [] nodeType = "n8n-nodes-base.gmail" -> GmailTemplate(rawParams)
    [] nodeType = "n8n-nodes-base.if" -> IfTemplate(rawParams, id)
    [] nodeType = "n8n-nodes-base.scheduleTrigger" -> ScheduleTriggerTemplate(rawParams)
    [] nodeType = "n8n-nodes-base.code" -> CodeTemplate(rawParams)
    [] nodeType = "n8n-nodes-base.set" -> SetTemplate(rawParams)
    [] nodeType = "n8n-nodes-base.manualTrigger" -> ManualTriggerTemplate(rawParams)
    [] OTHER -> Mapped(rawParams, 0)

generateNodeParameters(parameters, nodeType, g, t, id) ==
  mapParameters(nodeType, rawParametersFrom(parameters, 1, <<>>, g, t), id)

NoNode == [id |-> 0, name |-> "", type |-> "", position |-> <<0, 0>>,
           parameters |-> <<>>, typeVersion |-> ""]

\* the N8nNode generateNode returns once the parameters are mapped: the ids the
\* template made come before the id of the node
makeNode(nodeDecl, n8nNodeType, placed, version, mapped, id) ==
  IF mapped.threw
  THEN [threw |-> TRUE, error |-> "TypeError", node |-> NoNode,
        generator |-> placed.generator]
  ELSE [threw |-> FALSE, error |-> "",
        node |-> [id |-> id + mapped.ids,
                  name |-> nodeDecl.name,
                  type |-> n8nNodeType,
                  position |-> placed.position,
                  parameters |-> mapped.value,
                  typeVersion |-> IF version = "" THEN "1" ELSE version],
        generator |-> placed.generator]

\* generateNode once the type is mapped and the position taken
placeNode(nodeDecl, n8nNodeType, placed, t, id) ==
  makeNode(nodeDecl, n8nNodeType, placed, PropertyRead(DEFAULT_TYPE_VERSIONS, n8nNodeType),
           generateNodeParameters(nodeDecl.parameters, n8nNodeType, placed.generator, t, id),
           id)

\* generateNode with the mapped type at hand
generateMappedNode(g, nodeDecl, n8nNodeType, t, id) ==
  IF n8nNodeType = ""
  THEN [threw |-> TRUE, error |-> "Unknown node type", node |-> NoNode, generator |-> g]
  ELSE placeNode(nodeDecl, n8nNodeType, getNodePosition(g, nodeDecl.name), t, id)

\* generateNode: the node and the Generator afterwards, or the error thrown
generateNode(g, nodeDecl, t, id) ==
  IF nodeDecl.type = "ModuleDeclaration"
  THEN [threw |-> TRUE, error |-> "Module resolution not implemented yet",
        node |-> NoNode, generator |-> g]
  ELSE generateMappedNode(g, nodeDecl, mapNodeType(nodeDecl.nodeType), t, id)

\* the loop of generate over workflow.nodes; ids are taken from id + 1 on
RECURSIVE generateNodesFrom(_, _, _, _, _, _)
pushNode(one, decls, i, nodes, t, id) ==
  IF one.threw
  THEN [threw |-> TRUE, error |-> one.error, nodes |-> nodes,
        generator |-> one.generator, nextId |-> id]
  ELSE generateNodesFrom(one.generator, decls, i + 1, Append(nodes, one.node), t, one.node.id)

generateNodesFrom(g, decls, i, nodes, t, id) ==
  IF i > Len(decls)
  THEN [threw |-> FALSE, error |-> "", nodes |-> nodes, generator |-> g, nextId |-> id]
  ELSE pushNode(generateNode(g, decls[i], t, id + 1), decls, i, nodes, t, id)

mapConnectionType(dslType) == "main"

\* mapOutputIndex, were the indices counted from 1
mapOutputIndexFromOne(dslOutput) == IF dslOutput = "false" THEN 2 ELSE 1

mapOutputIndex(dslOutput) == IF dslOutput = "false" THEN 1 ELSE 0

\* an element of a JavaScript array that may have holes
Hole == [hole |-> TRUE, list |-> <<>>]
Slot(list) == [hole |-> FALSE, list |-> list]

\* array[index] = value on a JavaScript array, index counted from 0
ArraySet(array, index, value) ==
  [k \in 1..(IF index + 1 > Len(array) THEN index + 1 ELSE Len(array)) |->
     IF k = index + 1 THEN value ELSE IF k <= Len(array) THEN array[k] ELSE Hole]

\* !array[index]
ArrayMissing(array, index) == index + 1 > Len(array) \/ array[index + 1].hole

NodeConnection(node, type, index) == [node |-> node, type |-> type, index |-> index]

\* result[sourceName][connectionType][outputIndex].push(nodeConnection), the slot
\* created first when `!result[sourceName][connectionType][outputIndex]`
pushConnection(outputs, outputIndex, nodeConnection) ==
  ArraySet(outputs, outputIndex,
           Slot(Append(IF ArrayMissing(outputs, outputIndex) THEN <<>>
                       ELSE outputs[outputIndex + 1].list,
                       nodeConnection)))

\* the entry of key in a list of keyed entries, or empty when the key is absent
EntryOf(entries, field, key, empty) ==
  IF \E i \in 1..Len(entries) : entries[i][field] = key
  THEN entries[CHOOSE i \in 1..Len(entries) : entries[i][field] = key]
  ELSE empty

\* entries with the entry of key replaced by entry, or entry appended when absent
PutEntry(entries, field, key, entry) ==
  IF \E i \in 1..Len(entries) : entries[i][field] = key
  THEN [i \in 1..Len(entries) |-> IF entries[i][field] = key THEN entry ELSE entries[i]]
  ELSE Append(entries, entry)

\* result[sourceName][connectionType], or no outputs yet
OutputsOf(acc, sourceName, connectionType) ==
  EntryOf(EntryOf(acc, "source", sourceName, [source |-> sourceName, types |-> <<>>]).types,
          "type", connectionType, [type |-> connectionType, outputs |-> <<>>]).outputs

\* one iteration of the loop of generateConnections, on the connections built so far:
\* acc is the list of [source, types], types the list of [type, outputs]
addConnectionAt(acc, sourceName, connectionType, outputIndex, targetName) ==
  PutEntry(acc, "source", sourceName,
    [source |-> sourceName,
     types |->
       PutEntry(EntryOf(acc, "source", sourceName, [source |-> sourceName, types |-> <<>>]).types,
                "type", connectionType,
                [type |-> connectionType,
                 outputs |-> pushConnection(OutputsOf(acc, sourceName, connectionType),
                                            outputIndex,
                                            NodeConnection(targetName, connectionType, 0))])])

\* conn.source.output || 'main'
OutputOrMain(conn) == IF conn.source.output = "" THEN "main" ELSE conn.source.output

\* the names for which `result[sourceName]`, result a plain object without that key,
\* reads a function inherited from Object.prototype
InheritedFunctionKeys == ObjectPrototypeKeys \ {"__proto__"}

\* one iteration of the loop of generateConnections: when `result[sourceName]` is an
\* inherited function, `!result[sourceName]` is false, the lists are created on that
\* function and the entry is pushed there, and result gets no key
addConnection(acc, conn) ==
  IF conn.source.node \in InheritedFunctionKeys
  THEN acc
  ELSE addConnectionAt(acc, conn.source.node, mapConnectionType(OutputOrMain(conn)),
                       mapOutputIndex(OutputOrMain(conn)), conn.target.node)

RECURSIVE generateConnectionsFrom(_, _, _, _)
generateConnectionsFrom(connections, i, nodes, acc) ==
  IF i > Len(connections) THEN [threw |-> FALSE, error |-> "", connections |-> acc]
  ELSE LET nodeNames == {nodes[k].name : k \in 1..Len(nodes)}
           conn == connections[i]
       IN IF conn.source.node \notin nodeNames
          THEN [threw |-> TRUE, error |-> "Source node not found", connections |-> acc]
          ELSE IF conn.target.node \notin nodeNames
          THEN [threw |-> TRUE, error |-> "Target node not found", connections |-> acc]
          ELSE generateConnectionsFrom(connections, i + 1, nodes, addConnection(acc, conn))

\* generateConnections, were no end of a connection looked up in the nodes
generateConnectionsUnchecked(connections, nodes) ==
  LET RECURSIVE from(_, _)
      from(i, acc) ==
        IF i > Len(connections) THEN [threw |-> FALSE, error |-> "", connections |-> acc]
        ELSE from(i + 1, addConnection(acc, connections[i]))
  IN from(1, <<>>)

generateConnections(connections, nodes) == generateConnectionsFrom(connections, 1, nodes, <<>>)

NoWorkflow == [nodes |-> <<>>, connections |-> <<>>, instanceId |-> 0, name |-> "",
               active |-> FALSE, executionOrder |-> ""]

\* generate once the connections are built: the document, or the error thrown
assemble(g, program, built, wired) ==
  IF wired.threw
  THEN [threw |-> TRUE, error |-> wired.error, workflow |-> NoWorkflow,
        generator |-> built.generator, nextId |-> built.nextId]
  ELSE [threw |-> FALSE, error |-> "",
        workflow |-> [nodes |-> built.nodes,
                      connections |-> wired.connections,
                      instanceId |-> IF g.options.instanceId # 0 THEN g.options.instanceId
                                     ELSE built.nextId + 1,
                      name |-> program.name,
                      active |-> FALSE,
                      executionOrder |-> "v1"],
        generator |-> built.generator,
        nextId |-> IF g.options.instanceId # 0 THEN built.nextId ELSE built.nextId + 1]

\* generate once the nodes are built
connect(g, program, built) ==
  IF built.threw
  THEN [threw |-> TRUE, error |-> built.error, workflow |-> NoWorkflow,
        generator |-> built.generator, nextId |-> built.nextId]
  ELSE assemble(g, program, built, generateConnections(program.connections, built.nodes))

\* Generator.generate on the instance g at time t: what it returns or throws, the
\* instance afterwards and the ids used
generate(g, program, t, id) ==
  connect(g, program,
          generateNodesFrom(processVariables(processParameters(g, program.parameters, t),
                                             program.variables, t),
                            program.nodes, 1, <<>>, t, id))

-----------------------------------------------------------------------------
(* Validator (utils/validation.ts) *)

\* addError / addWarning: the entry pushed; subject is the name put into the message
ValidationError(message, subject, type) ==
  [message |-> message, subject |-> subject, type |-> type, line |-> 0, column |-> 0]

RECURSIVE Flatten(_)
Flatten(lists) == IF lists = <<>> THEN <<>> ELSE Head(lists) \o Flatten(Tail(lists))

NamesOf(decls) == {decls[i].name : i \in 1..Len(decls)}

\* validateWorkflow, the loop over workflow.parameters
parameterErrors(params) ==
  Flatten([i \in 1..Len(params) |->
             IF \E j \in 1..(i - 1) : params[j].name = params[i].name
             THEN <<At(ValidationError("Duplicate parameter name: ", params[i].name, "error"),
                       params[i])>>
             ELSE <<>>])

\* validateWorkflow, the loop over workflow.variables
variableErrors(variables, paramNames) ==
  Flatten([i \in 1..Len(variables) |->
             (IF \E j \in 1..(i - 1) : variables[j].name = variables[i].name
              THEN <<At(ValidationError("Duplicate variable name: ", variables[i].name,
                                        "error"),
                        variables[i])>>
              ELSE <<>>)
             \o
             (IF variables[i].name \in paramNames
              THEN <<At(ValidationError("Variable conflicts with parameter name",
                                     variables[i].name, "error"), variables[i])>>
              ELSE <<>>)])

\* duplicateNodeErrors, were a node compared with the entry just before it only
duplicateNodeErrorsAdjacent(nodes) ==
  Flatten([i \in 1..Len(nodes) |->
             IF i > 1 /\ nodes[i - 1].name = nodes[i].name
             THEN <<At(ValidationError("Duplicate node name: ", nodes[i].name, "error"), nodes[i])>>
             ELSE <<>>])

\* validateWorkflow, the first loop over workflow.nodes
duplicateNodeErrors(nodes) ==
  Flatten([i \in 1..Len(nodes) |->
             IF \E j \in 1..(i - 1) : nodes[j].name = nodes[i].name
             THEN <<At(ValidationError("Duplicate node name: ", nodes[i].name, "error"), nodes[i])>>
             ELSE <<>>])

\* connectionErrors, were the target checked only when the source exists
connectionErrorsElseIf(connections, nodeNames) ==
  Flatten([i \in 1..Len(connections) |->
             IF connections[i].source.node \notin nodeNames
             THEN <<At(ValidationError("Connection source node does not exist",
                                    connections[i].source.node, "error"), connections[i])>>
             ELSE IF connections[i].target.node \notin nodeNames
             THEN <<At(ValidationError("Connection target node does not exist",
                                    connections[i].target.node, "error"), connections[i])>>
             ELSE <<>>])

\* validateWorkflow, the first loop over workflow.connections
connectionErrors(connections, nodeNames) ==
  Flatten([i \in 1..Len(connections) |->
             (IF connections[i].source.node \notin nodeNames
              THEN <<At(ValidationError("Connection source node does not exist",
                                     connections[i].source.node, "error"), connections[i])>>
              ELSE <<>>)
             \o
             (IF connections[i].target.node \notin nodeNames
              THEN <<At(ValidationError("Connection target node does not exist",
                                     connections[i].target.node, "error"), connections[i])>>
              ELSE <<>>)])

\* validateWorkflow, the second loop over workflow.connections
connectedNodes(connections) ==
  {connections[i].source.node : i \in 1..Len(connections)}
    \cup {connections[i].target.node : i \in 1..Len(connections)}

\* validateWorkflow, the second loop over workflow.nodes
disconnectedWarnings(nodes, connected) ==
  Flatten([i \in 1..Len(nodes) |->
             IF nodes[i].name \notin connected
             THEN <<At(ValidationError("Node is not connected to any other nodes",
                                    nodes[i].name, "warning"), nodes[i])>>
             ELSE <<>>])

\* the entries validateWorkflow pushes, in the order it pushes them
validateWorkflow(workflow) ==
  parameterErrors(workflow.parameters)
    \o variableErrors(workflow.variables, NamesOf(workflow.parameters))
    \o duplicateNodeErrors(workflow.nodes)
    \o connectionErrors(workflow.connections, NamesOf(workflow.nodes))
    \o disconnectedWarnings(workflow.nodes, connectedNodes(workflow.connections))

\* validateNode: the entries pushed for one node of the graph
validateNode(node) ==
  (IF node.id = 0 THEN <<ValidationError("Node must have an id", "", "error")>> ELSE <<>>)
  \o (IF node.name = "" THEN <<ValidationError("Node must have a name", "", "error")>> ELSE <<>>)
  \o (IF node.type = "" THEN <<ValidationError("Node must have a type", "", "error")>> ELSE <<>>)
  \o (IF Len(node.position) # 2
      THEN <<ValidationError("Node must have a valid position [x, y]", "", "error")>> ELSE <<>>)
  \o (IF node.typeVersion = ""
      THEN <<ValidationError("Node must have a typeVersion", "", "error")>> ELSE <<>>)

\* validateN8nWorkflow: the entries pushed, or threw when `for (const conn of outputs)`
\* meets a hole of the outputs array (outputs is then undefined, which is not iterable)
validateN8nWorkflow(workflow) ==
  LET nodes == workflow.nodes
      connections == workflow.connections
      nodeNames == {nodes[i].name : i \in 1..Len(nodes)}
      emptyErrors == IF Len(nodes) = 0
                     THEN <<ValidationError("Workflow must have at least one node", "", "error")>>
                     ELSE <<>>
      nodeErrors ==
        [i \in 1..Len(nodes) |->
           (IF \E j \in 1..(i - 1) : nodes[j].name = nodes[i].name
            THEN <<ValidationError("Duplicate node name: ", nodes[i].name, "error")>>
            ELSE <<>>)
           \o validateNode(nodes[i])]
      outputErrors(outputs) ==
        [c \in 1..Len(outputs.list) |->
           IF outputs.list[c].node \notin nodeNames
           THEN <<ValidationError("Connection target node does not exist",
                                  outputs.list[c].node, "error")>>
           ELSE <<>>]
      typeErrors(connType) ==
        [o \in 1..Len(connType.outputs) |-> Flatten(outputErrors(connType.outputs[o]))]
      sourceErrors ==
        [s \in 1..Len(connections) |->
           (IF connections[s].source \notin nodeNames
            THEN <<ValidationError("Connection source node does not exist",
                                   connections[s].source, "error")>>
            ELSE <<>>)
           \o Flatten([y \in 1..Len(connections[s].types) |->
                         Flatten(typeErrors(connections[s].types[y]))])]
      holes == \E s \in 1..Len(connections) : \E y \in 1..Len(connections[s].types) :
                 \E o \in 1..Len(connections[s].types[y].outputs) :
                   connections[s].types[y].outputs[o].hole
  IN IF holes THEN [threw |-> TRUE, errors |-> <<>>]
     ELSE [threw |-> FALSE,
           errors |-> emptyErrors \o Flatten(nodeErrors) \o Flatten(sourceErrors)]

-----------------------------------------------------------------------------
(* Compiler.compile *)

OfType(entries, type) == SelectSeq(entries, LAMBDA e : e.type = type)
NotOfType(entries, type) == SelectSeq(entries, LAMBDA e : e.type # type)

CompilerResult(success, hasWorkflow, workflow, hasAst, errors, warnings, stages, nid) ==
  [success |-> success, hasWorkflow |-> hasWorkflow, workflow |-> workflow,
   hasAst |-> hasAst, errors |-> errors, warnings |-> warnings,
   stages |-> stages, nextId |-> nid]

\* the catch block of compile, were it to push no entry
caughtSilent(errors, warnings, stages, nid, thrown) ==
  CompilerResult(FALSE, FALSE, NoWorkflow, FALSE, errors, warnings, stages, nid)

\* the catch block of compile: the result once a stage has thrown the error `thrown`
caught(errors, warnings, stages, nid, thrown) ==
  CompilerResult(FALSE, FALSE, NoWorkflow, FALSE,
                 Append(errors, ValidationError("Compilation error: ", thrown, "error")),
                 warnings, stages, nid)

\* compile after the graph pass
compileChecked(errors, warnings, stages, made, workflowResult) ==
  IF workflowResult.threw
  THEN caught(errors, warnings, stages, made.nextId, "TypeError")
  ELSE CompilerResult(Len(errors \o OfType(workflowResult.errors, "error")) = 0,
                      TRUE, made.workflow, TRUE,
                      errors \o OfType(workflowResult.errors, "error"),
                      warnings \o NotOfType(workflowResult.errors, "error"),
                      stages, made.nextId)

\* compile after generation
compileGenerated(opts, errors, warnings, stages, made) ==
  IF made.threw
  THEN caught(errors, warnings, Append(stages, "generate"), made.nextId, made.error)
  ELSE IF ~opts.validate
  THEN CompilerResult(TRUE, TRUE, made.workflow, TRUE, errors, warnings,
                      Append(stages, "generate"), made.nextId)
  ELSE compileChecked(errors, warnings, stages \o <<"generate", "validateN8nWorkflow">>,
                      made, validateN8nWorkflow(made.workflow))

\* compileValidated, were warnings to stop compilation whatever strict is
compileValidatedAlwaysStrict(program, opts, t, id, errors, warnings, stages) ==
  IF Len(errors) > 0
  THEN CompilerResult(FALSE, FALSE, NoWorkflow, TRUE, errors, warnings, stages, id)
  ELSE IF Len(warnings) > 0
  THEN CompilerResult(FALSE, FALSE, NoWorkflow, TRUE, warnings, <<>>, stages, id)
  ELSE compileGenerated(opts, errors, warnings, stages,
                        generate(NewGenerator(opts), program, t, id))

\* compile after the AST pass, whose entries are split into errors and warnings
compileValidated(program, opts, t, id, errors, warnings, stages) ==
  IF Len(errors) > 0
  THEN CompilerResult(FALSE, FALSE, NoWorkflow, TRUE, errors, warnings, stages, id)
  ELSE IF opts.strict /\ Len(warnings) > 0
  THEN CompilerResult(FALSE, FALSE, NoWorkflow, TRUE, warnings, <<>>, stages, id)
  ELSE compileGenerated(opts, errors, warnings, stages,
                        generate(NewGenerator(opts), program, t, id))

\* Compiler.compile of a source that parses to program, at time t; stages lists the
\* stages it entered, nextId the ids used up
compile(program, opts, t, id) ==
  IF opts.validate
  THEN compileValidated(program, opts, t, id,
                        OfType(validateWorkflow(program), "error"),
                        NotOfType(validateWorkflow(program), "error"),
                        <<"parse", "validateProgram">>)
  ELSE compileGenerated(opts, <<>>, <<>>, <<"parse">>,
                        generate(NewGenerator(opts), program, t, id))

-----------------------------------------------------------------------------
(* Lexer (parser/lexer.ts) *)

\* lx holds the private fields position, line and column of a Lexer; position is
\* zero-based in the source and one-based here
peek(text, lx, offset) ==
  IF lx.position + offset <= Len(text) THEN text[lx.position + offset] ELSE ""

advance(lx) == [lx EXCEPT !.position = @ + 1, !.column = @ + 1]

makeToken(type, value, lx) ==
  [type |-> type, value |-> value, line |-> lx.line, column |-> lx.column - Len(value)]

isDigit(char) == char \in {"0", "1", "2", "3", "4", "5", "6", "7", "8", "9"}
isAlpha(char) ==
  char \in {"a", "b", "c", "d", "e", "f", "g", "h", "i", "j", "k", "l", "m",
            "n", "o", "p", "q", "r", "s", "t", "u", "v", "w", "x", "y", "z",
            "A", "B", "C", "D", "E", "F", "G", "H", "I", "J", "K", "L", "M",
            "N", "O", "P", "Q", "R", "S", "T", "U", "V", "W", "X", "Y", "Z"}

\* String.prototype.toLowerCase
toLowerCase(s) ==
  LET lower == <<"a", "b", "c", "d", "e", "f", "g", "h", "i", "j", "k", "l", "m",
                 "n", "o", "p", "q", "r", "s", "t", "u", "v", "w", "x", "y", "z">>
      upper == <<"A", "B", "C", "D", "E", "F", "G", "H", "I", "J", "K", "L", "M",
                 "N", "O", "P", "Q", "R", "S", "T", "U", "V", "W", "X", "Y", "Z">>
  IN [i \in 1..Len(s) |->
        IF \E k \in 1..26 : upper[k] = s[i]
        THEN lower[CHOOSE k \in 1..26 : upper[k] = s[i]]
        ELSE s[i]]

keywords ==
  {<<"w", "o", "r", "k", "f", "l", "o", "w">>, <<"p", "a", "r", "a", "m">>,
   <<"v", "a", "r">>, <<"n", "o", "d", "e">>, <<"m", "o", "d", "u", "l", "e">>,
   <<"c", "o", "n", "n", "e", "c", "t">>, <<"t", "r", "u", "e">>,
   <<"f", "a", "l", "s", "e">>, <<"s", "t", "r", "i", "n", "g">>,
   <<"n", "u", "m", "b", "e", "r">>, <<"b", "o", "o", "l", "e", "a", "n">>,
   <<"a", "r", "r", "a", "y">>, <<"o", "b", "j", "e", "c", "t">>}

getKeywordType(keyword) ==
  CASE keyword = <<"w", "o", "r", "k", "f", "l", "o", "w">> -> "WORKFLOW"
    [] keyword = <<"p", "a", "r", "a", "m">> -> "PARAM"
    [] keyword = <<"v", "a", "r">> -> "VAR"
    [] keyword = <<"n", "o", "d", "e">> -> "NODE"
    [] keyword = <<"m", "o", "d", "u", "l", "e">> -> "MODULE"
    [] keyword = <<"c", "o", "n", "n", "e", "c", "t">> -> "CONNECT"
    [] keyword \in {<<"t", "r", "u", "e">>, <<"f", "a", "l", "s", "e">>} -> "BOOLEAN"
    [] OTHER -> "IDENTIFIER"

\* the characters nextToken skips with a warning
SkippedCharacters == {"*", "?", "\\", "|", "&"}

\* what a step of the lexer gives: a token and the lexer's fields after it, or the
\* Error it threw. start is the position the token was read from (not a field of
\* the source's Token: the claims about token positions are stated with it)
Lexed(token, lx) == [threw |-> FALSE, token |-> token, lexer |-> lx, start |-> 0]
LexerError(message, char, line, column) ==
  [threw |-> TRUE,
   error |-> [name |-> "Error", message |-> message, char |-> char,
              line |-> line, column |-> column]]

readString(text, lx, quote) ==
  LET start == lx.column
      \* `value += escaped`: an `undefined` read past the end is appended as text
      Escaped(position) ==
        IF position > Len(text) THEN <<"u", "n", "d", "e", "f", "i", "n", "e", "d">>
        ELSE CASE text[position] = "n" -> <<"\n">>
               [] text[position] = "t" -> <<"\t">>
               [] text[position] = "r" -> <<"\r">>
               [] OTHER -> <<text[position]>>
      RECURSIVE loop(_, _)
      loop(at, value) ==
        IF at.position > Len(text)
        THEN LexerError("Unterminated string", "", at.line, start)
        ELSE IF text[at.position] = quote
        THEN Lexed([type |-> "STRING", value |-> value, line |-> at.line,
                    column |-> start], advance(at))
        ELSE IF text[at.position] = "\\"
        THEN loop(advance(advance(at)), value \o Escaped(at.position + 1))
        ELSE IF text[at.position] = "\n"
        THEN loop(advance([at EXCEPT !.line = @ + 1, !.column = 1]), Append(value, "\n"))
        ELSE loop(advance(at), Append(value, text[at.position]))
  IN loop(advance(lx), <<>>)

readMultiLineString(text, lx) ==
  LET start == lx.column
      RECURSIVE loop(_, _)
      loop(at, value) ==
        IF ~(at.position < Len(text) - 1)
        THEN LexerError("Unterminated multi-line string", "", at.line, start)
        ELSE IF /\ text[at.position] = "\""
                /\ peek(text, at, 1) = "\""
                /\ peek(text, at, 2) = "\""
        THEN Lexed([type |-> "STRING", value |-> Trim(value), line |-> at.line,
                    column |-> start], advance(advance(advance(at))))
        ELSE IF text[at.position] = "\n"
        THEN loop(advance([at EXCEPT !.line = @ + 1, !.column = 1]), Append(value, "\n"))
        ELSE loop(advance(at), Append(value, text[at.position]))
  IN loop(advance(advance(advance(lx))), <<>>)

readNumber(text, lx) ==
  LET start == lx.column
      RECURSIVE loop(_, _)
      loop(at, value) ==
        IF /\ at.position <= Len(text)
           /\ (isDigit(text[at.position]) \/ text[at.position] = ".")
        THEN loop(advance(at), Append(value, text[at.position]))
        ELSE Lexed([type |-> "NUMBER", value |-> value, line |-> at.line,
                    column |-> start], at)
  IN loop(lx, <<>>)

readIdentifier(text, lx) ==
  LET start == lx.column
      RECURSIVE loop(_, _)
      loop(at, value) ==
        IF /\ at.position <= Len(text)
           /\ \/ isAlpha(text[at.position]) \/ isDigit(text[at.position])
              \/ text[at.position] = "_"
        THEN loop(advance(at), Append(value, text[at.position]))
        ELSE Lexed([type |-> IF toLowerCase(value) \in keywords
                             THEN getKeywordType(toLowerCase(value)) ELSE "IDENTIFIER",
                    value |-> value, line |-> at.line, column |-> start], at)
  IN loop(lx, <<>>)

readComment(text, lx) ==
  LET start == lx.column
      RECURSIVE loop(_, _)
      loop(at, value) ==
        IF at.position <= Len(text) /\ text[at.position] # "\n"
        THEN loop(advance(at), Append(value, text[at.position]))
        ELSE Lexed([type |-> "COMMENT", value |-> Trim(value), line |-> at.line,
                    column |-> start], at)
  IN loop(advance(advance(lx)), <<>>)

readBlockComment(text, lx) ==
  LET start == lx.column
      RECURSIVE loop(_, _)
      loop(at, value) ==
        IF ~(at.position < Len(text))
        THEN Lexed([type |-> "COMMENT", value |-> Trim(value), line |-> at.line,
                    column |-> start], at)
        ELSE IF text[at.position] = "*" /\ text[at.position + 1] = "/"
        THEN Lexed([type |-> "COMMENT", value |-> Trim(value), line |-> at.line,
                    column |-> start], advance(advance(at)))
        ELSE IF text[at.position] = "\n"
        THEN loop(advance([at EXCEPT !.line = @ + 1, !.column = 1]), Append(value, "\n"))
        ELSE loop(advance(at), Append(value, text[at.position]))
  IN loop(advance(advance(lx)), <<>>)

\* nextToken; char is this.input[this.position], `undefined` past the end
RECURSIVE nextToken(_, _)
nextToken(text, lx) ==
  LET char == IF lx.position <= Len(text) THEN text[lx.position] ELSE "undefined"
      SingleCharacterType ==
        CASE char = "{" -> "LBRACE" [] char = "}" -> "RBRACE"
          [] char = "(" -> "LPAREN" [] char = ")" -> "RPAREN"
          [] char = "[" -> "LBRACKET" [] char = "]" -> "RBRACKET"
          [] char = "," -> "COMMA" [] char = ":" -> "COLON"
          [] char = ";" -> "SEMICOLON" [] OTHER -> "DOT"
      \* of a token read here, not by the call made after a skipped character
      ReadHere(lexed) ==
        IF lexed.threw \/ lexed.start # 0 THEN lexed
        ELSE [lexed EXCEPT !.start = lx.position]
      \* a two-character token: advance(), then makeToken(type, this.advance())
      Two(type, second) ==
        Lexed(makeToken(type, <<second>>, advance(advance(lx))), advance(advance(lx)))
  IN ReadHere(
       IF char \in {"{", "}", "(", ")", "[", "]", ",", ":", ";", "."}
       THEN Lexed(makeToken(SingleCharacterType, <<char>>, advance(lx)), advance(lx))
       ELSE IF char = "\n"
       THEN Lexed(makeToken("NEWLINE", <<char>>,
                            advance([lx EXCEPT !.line = @ + 1, !.column = 1])),
                  advance([lx EXCEPT !.line = @ + 1, !.column = 1]))
       ELSE IF char = "=" /\ peek(text, lx, 1) = "=" THEN Two("EQUALS", "=")
       ELSE IF char = "="
       THEN Lexed(makeToken("EQUALS", <<"=">>, advance(lx)), advance(lx))
       ELSE IF char = "-" /\ peek(text, lx, 1) = ">" THEN Two("ARROW", ">")
       ELSE IF char = "$" /\ peek(text, lx, 1) = "{" THEN Two("TEMPLATE_START", "{")
       ELSE IF char = "|" /\ peek(text, lx, 1) = "|" THEN Two("OR", "|")
       ELSE IF char = "&" /\ peek(text, lx, 1) = "&" THEN Two("AND", "&")
       ELSE IF char = "/" /\ peek(text, lx, 1) = "/" THEN readComment(text, lx)
       ELSE IF char = "/" /\ peek(text, lx, 1) = "*" THEN readBlockComment(text, lx)
       ELSE IF char = "\"" /\ peek(text, lx, 1) = "\"" /\ peek(text, lx, 2) = "\""
       THEN readMultiLineString(text, lx)
       ELSE IF char = "\"" \/ char = "'" THEN readString(text, lx, char)
       ELSE IF isDigit(char) THEN readNumber(text, lx)
       ELSE IF isAlpha(char) \/ char = "_" THEN readIdentifier(text, lx)
       ELSE IF char \in SkippedCharacters THEN nextToken(text, advance(lx))
       ELSE LexerError("Unexpected character", char, lx.line, lx.column))

RECURSIVE skipWhitespace(_, _)
skipWhitespace(text, lx) ==
  IF lx.position <= Len(text) /\ text[lx.position] \in {" ", "\t", "\r"}
  THEN skipWhitespace(text, advance(lx))
  ELSE lx

\* tokenize: the tokens, EOF last, or the Error thrown. starts[i] is the position
\* tokens[i] was read from
tokenize(text) ==
  LET Tokenized(lx, tokens, starts) ==
        [threw |-> FALSE,
         tokens |-> Append(tokens, [type |-> "EOF", value |-> <<>>, line |-> lx.line,
                                    column |-> lx.column]),
         starts |-> Append(starts, lx.position)]
      RECURSIVE loop(_, _, _)
      push(lexed, tokens, starts) ==
        IF lexed.threw THEN lexed
        ELSE loop(lexed.lexer, Append(tokens, lexed.token), Append(starts, lexed.start))
      skipped(lx, tokens, starts) ==
        IF lx.position > Len(text) THEN Tokenized(lx, tokens, starts)
        ELSE push(nextToken(text, lx), tokens, starts)
      loop(lx, tokens, starts) ==
        IF lx.position > Len(text) THEN Tokenized(lx, tokens, starts)
        ELSE skipped(skipWhitespace(text, lx), tokens, starts)
  IN loop([position |-> 1, line |-> 1, column |-> 1], <<>>, <<>>)

-----------------------------------------------------------------------------
(* Parser (parser/parser.ts) on the tokens of a source. The names and strings of *)
(* the AST it builds are the token values, one character after another.          *)

\* what a parse method gives: its value and this.current after it, or the
\* ParseError it threw; current is zero-based in the source and one-based here
Parsed(value, current) == [threw |-> FALSE, value |-> value, current |-> current]

\* what a parse method gives for a declaration: `line: this.getCurrentToken().line,
\* column: this.getCurrentToken().column`, read once the declaration is consumed
Positioned(tokens, declaration, current) ==
  Parsed(At(declaration, tokens[current]), current)
ParseError(message, token) ==
  [threw |-> TRUE,
   error |-> [name |-> "ParseError", message |-> message,
              line |-> token.line, column |-> token.column]]

\* the current token, this.tokens[this.current], is tokens[current]
isAtEnd(tokens, current) == tokens[current].type = "EOF"
check(tokens, current, type) == ~isAtEnd(tokens, current) /\ tokens[current].type = type

\* expect: the token, this.current moved past it
expect(tokens, current, type) ==
  IF check(tokens, current, type) THEN Parsed(tokens[current], current + 1)
  ELSE ParseError(<<"Expected", type>>, tokens[current])

\* a method's last expect, and the value the method returns after it
Returning(expected, value) ==
  IF expected.threw THEN expected ELSE Parsed(value, expected.current)

RECURSIVE parseTemplateExpression(_, _)
RECURSIVE parsePrimary(_, _)
RECURSIVE parseObject(_, _, _)
RECURSIVE parseArray(_, _, _)

\* parseObject, from the top of its loop with the properties read so far
parseObject(tokens, current, properties) ==
  LET End(at, read) ==
        Returning(expect(tokens, at, "RBRACE"),
                  [type |-> "ObjectExpression", properties |-> read])
      Value(key, value) ==
        IF value.threw THEN value
        ELSE IF check(tokens, value.current, "COMMA")
        THEN parseObject(tokens, value.current + 1, ObjSet(properties, key, value.value))
        ELSE End(value.current, ObjSet(properties, key, value.value))
      Colon(key, colon) ==
        IF colon.threw THEN colon
        ELSE Value(key, parseTemplateExpression(tokens, colon.current))
  IN IF check(tokens, current, "RBRACE") \/ isAtEnd(tokens, current)
     THEN End(current, properties)
     ELSE IF check(tokens, current, "IDENTIFIER") \/ check(tokens, current, "STRING")
     THEN Colon(tokens[current].value, expect(tokens, current + 1, "COLON"))
     ELSE ParseError(<<"Expected property name">>, tokens[current])

\* parseArray, from the top of its loop with the elements read so far
parseArray(tokens, current, elements) ==
  LET End(at, read) ==
        Returning(expect(tokens, at, "RBRACKET"),
                  [type |-> "ArrayExpression", elements |-> read])
      Element(element) ==
        IF element.threw THEN element
        ELSE IF check(tokens, element.current, "COMMA")
        THEN parseArray(tokens, element.current + 1, Append(elements, element.value))
        ELSE End(element.current, Append(elements, element.value))
  IN IF check(tokens, current, "RBRACKET") \/ isAtEnd(tokens, current)
     THEN End(current, elements)
     ELSE Element(parseTemplateExpression(tokens, current))

parsePrimary(tokens, current) ==
  IF check(tokens, current, "STRING")
  THEN Parsed(LiteralExpr(JSString(tokens[current].value)), current + 1)
  ELSE IF \/ check(tokens, current, "NUMBER")
          \/ check(tokens, current, "BOOLEAN")
          \/ check(tokens, current, "IDENTIFIER")
  THEN Parsed(parseExpression(tokens[current]), current + 1)
  ELSE IF check(tokens, current, "LBRACE") THEN parseObject(tokens, current + 1, <<>>)
  ELSE IF check(tokens, current, "LBRACKET") THEN parseArray(tokens, current + 1, <<>>)
  ELSE ParseError(<<"Unexpected token">>, tokens[current])

\* parseExpression, which is parseTemplateExpression
parseTemplateExpression(tokens, current) ==
  IF check(tokens, current, "STRING")
  THEN Parsed(parseExpression(tokens[current]), current + 1)
  ELSE parsePrimary(tokens, current)

\* the parse methods below are entered at the keyword parseWorkflow has checked
parseParameter(tokens, current) ==
  LET Default(name, paramType, defaultValue) ==
        IF defaultValue.threw THEN defaultValue
        ELSE Positioned(tokens,
                        ParameterDeclaration(name, paramType, TRUE, defaultValue.value),
                        defaultValue.current)
      ParamType(name, paramType) ==
        IF paramType.threw THEN paramType
        ELSE IF check(tokens, paramType.current, "EQUALS")
        THEN Default(name, paramType.value.value,
                     parseTemplateExpression(tokens, paramType.current + 1))
        ELSE Positioned(tokens,
                        ParameterDeclaration(name, paramType.value.value, FALSE, NoExpression),
                        paramType.current)
      Name(name) ==
        IF name.threw THEN name
        ELSE ParamType(name.value.value, expect(tokens, name.current, "IDENTIFIER"))
  IN Name(expect(tokens, current + 1, "IDENTIFIER"))

parseVariable(tokens, current) ==
  LET Value(name, value) ==
        IF value.threw THEN value
        ELSE Positioned(tokens, VariableDeclaration(name, value.value), value.current)
      Equals(name, equals) ==
        IF equals.threw THEN equals
        ELSE Value(name, parseTemplateExpression(tokens, equals.current))
      Name(name) ==
        IF name.threw THEN name
        ELSE Equals(name.value.value, expect(tokens, name.current, "EQUALS"))
  IN Name(expect(tokens, current + 1, "IDENTIFIER"))

\* the loop of parseNode and of parseModule over `name: value` entries, the comma
\* after an entry optional, and the closing brace after it
RECURSIVE parseParameters(_, _, _)
parseParameters(tokens, current, parameters) ==
  LET Value(paramName, paramValue) ==
        IF paramValue.threw THEN paramValue
        ELSE parseParameters(tokens,
                             IF check(tokens, paramValue.current, "COMMA")
                             THEN paramValue.current + 1 ELSE paramValue.current,
                             ObjSet(parameters, paramName, paramValue.value))
      Colon(paramName, colon) ==
        IF colon.threw THEN colon
        ELSE Value(paramName, parseTemplateExpression(tokens, colon.current))
      Name(paramName) ==
        IF paramName.threw THEN paramName
        ELSE Colon(paramName.value.value, expect(tokens, paramName.current, "COLON"))
  IN IF check(tokens, current, "RBRACE") \/ isAtEnd(tokens, current)
     THEN Returning(expect(tokens, current, "RBRACE"), parameters)
     ELSE Name(expect(tokens, current, "IDENTIFIER"))

parseNode(tokens, current) ==
  LET Parameters(name, nodeType, parameters) ==
        IF parameters.threw THEN parameters
        ELSE Positioned(tokens, NodeDeclaration(name, nodeType, parameters.value),
                        parameters.current)
      Brace(name, nodeType, brace) ==
        IF brace.threw THEN brace
        ELSE Parameters(name, nodeType, parseParameters(tokens, brace.current, <<>>))
      NodeType(name, nodeType) ==
        IF nodeType.threw THEN nodeType
        ELSE Brace(name, nodeType.value.value, expect(tokens, nodeType.current, "LBRACE"))
      Name(name) ==
        IF name.threw THEN name
        ELSE NodeType(name.value.value, expect(tokens, name.current, "STRING"))
  IN Name(expect(tokens, current + 1, "IDENTIFIER"))

parseModule(tokens, current) ==
  LET Parameters(name, modulePath, parameters) ==
        IF parameters.threw THEN parameters
        ELSE Positioned(tokens, ModuleDeclaration(name, modulePath, parameters.value),
                    parameters.current)
      Brace(name, modulePath, brace) ==
        IF brace.threw THEN brace
        ELSE Parameters(name, modulePath, parseParameters(tokens, brace.current, <<>>))
      Path(name, modulePath) ==
        IF modulePath.threw THEN modulePath
        ELSE Brace(name, modulePath.value.value,
                   expect(tokens, modulePath.current, "LBRACE"))
      Equals(name, equals) ==
        IF equals.threw THEN equals
        ELSE Path(name, expect(tokens, equals.current, "STRING"))
      Name(name) ==
        IF name.threw THEN name
        ELSE Equals(name.value.value, expect(tokens, name.current, "EQUALS"))
  IN Name(expect(tokens, current + 1, "IDENTIFIER"))

\* Parser.parseConnection
parseConnectionTokens(tokens, current) ==
  LET \* the optional `.port` of a connection end: "main" when none is written
      Port(at, what) ==
        IF ~check(tokens, at, "DOT") THEN Parsed(<<"m", "a", "i", "n">>, at)
        ELSE IF check(tokens, at + 1, "IDENTIFIER") \/ check(tokens, at + 1, "BOOLEAN")
        THEN Parsed(tokens[at + 1].value, at + 2)
        ELSE ParseError(<<"Expected connection name", what>>,
                        tokens[at + 1])
      Input(sourceNode, sourceOutput, targetNode, targetInput) ==
        IF targetInput.threw THEN targetInput
        ELSE Positioned(tokens, ConnectionDeclaration(sourceNode, sourceOutput, targetNode,
                                          targetInput.value),
                    targetInput.current)
      Target(sourceNode, sourceOutput, targetNode) ==
        IF targetNode.threw THEN targetNode
        ELSE Input(sourceNode, sourceOutput, targetNode.value.value,
                   Port(targetNode.current, "input"))
      Arrow(sourceNode, sourceOutput, arrow) ==
        IF arrow.threw THEN arrow
        ELSE Target(sourceNode, sourceOutput, expect(tokens, arrow.current, "IDENTIFIER"))
      Output(sourceNode, sourceOutput) ==
        IF sourceOutput.threw THEN sourceOutput
        ELSE Arrow(sourceNode, sourceOutput.value,
                   expect(tokens, sourceOutput.current, "ARROW"))
      Source(sourceNode) ==
        IF sourceNode.threw THEN sourceNode
        ELSE Output(sourceNode.value.value, Port(sourceNode.current, "output"))
  IN Source(expect(tokens, current + 1, "IDENTIFIER"))

parseWorkflow(tokens) ==
  LET RECURSIVE loop(_, _)
      Declared(declaration, workflow, field) ==
        IF declaration.threw THEN declaration
        ELSE loop(declaration.current,
                  [workflow EXCEPT ![field] = Append(@, declaration.value)])
      loop(current, workflow) ==
        IF check(tokens, current, "RBRACE") \/ isAtEnd(tokens, current)
        THEN Returning(expect(tokens, current, "RBRACE"),
                       [workflow EXCEPT !.parsed = TRUE])
        ELSE IF check(tokens, current, "PARAM")
        THEN Declared(parseParameter(tokens, current), workflow, "parameters")
        ELSE IF check(tokens, current, "VAR")
        THEN Declared(parseVariable(tokens, current), workflow, "variables")
        ELSE IF check(tokens, current, "NODE")
        THEN Declared(parseNode(tokens, current), workflow, "nodes")
        ELSE IF check(tokens, current, "MODULE")
        THEN Declared(parseModule(tokens, current), workflow, "nodes")
        ELSE IF check(tokens, current, "CONNECT")
        THEN Declared(parseConnectionTokens(tokens, current), workflow, "connections")
        ELSE ParseError(<<"Unexpected token">>, tokens[current])
      Brace(name, brace) ==
        IF brace.threw THEN brace
        ELSE loop(brace.current, [EmptyWorkflowDeclaration EXCEPT !.name = name])
      Name(name) ==
        IF name.threw THEN name
        ELSE Brace(name.value.value, expect(tokens, name.current, "LBRACE"))
      Keyword(keyword) ==
        IF keyword.threw THEN keyword
        ELSE Name(expect(tokens, keyword.current, "STRING"))
  IN Keyword(expect(tokens, 1, "WORKFLOW"))

\* parse: the Program, or the ParseError thrown
parse(tokens) ==
  LET End(workflow) ==
        IF workflow.threw THEN workflow
        ELSE IF ~isAtEnd(tokens, workflow.current)
        THEN Returning(expect(tokens, workflow.current, "EOF"), workflow.value)
        ELSE Parsed(workflow.value, workflow.current)
  IN End(parseWorkflow(tokens))

\* new Parser(input): the tokens of the Lexer but COMMENT and NEWLINE; the
\* constructor throws what the Lexer throws
NewParserOn(lexed) ==
  LET RECURSIVE Filter(_)
      Filter(tokens) ==
        IF tokens = <<>> THEN <<>>
        ELSE IF Head(tokens).type \in {"COMMENT", "NEWLINE"} THEN Filter(Tail(tokens))
        ELSE <<Head(tokens)>> \o Filter(Tail(tokens))
  IN IF lexed.threw THEN [constructed |-> FALSE, threw |-> TRUE, error |-> lexed.error]
     ELSE [constructed |-> TRUE, threw |-> FALSE, tokens |-> Filter(lexed.tokens),
           called |-> FALSE]

-----------------------------------------------------------------------------
(* Compiler.compile on a source text *)

\* the words of the sources that are longer than one character, as the strings
\* the Generator and the Validator compare and look up
Words ==
  <<[text |-> <<"c", "o", "n", "s", "t", "r", "u", "c", "t", "o", "r">>, string |-> "constructor"],
    [text |-> <<"m", "a", "i", "n">>, string |-> "main"],
    [text |-> <<"f", "a", "l", "s", "e">>, string |-> "false"],
    [text |-> <<"t", "r", "u", "e">>, string |-> "true"],
    [text |-> <<"s", "t", "r", "i", "n", "g">>, string |-> "string"],
    [text |-> <<"u", "t", "i", "l", ".", "n", "o", "o", "p">>, string |-> "util.noop"],
    [text |-> <<"t", "r", "i", "g", "g", "e", "r", ".", "m", "a", "n", "u", "a", "l">>, string |-> "trigger.manual"],
    [text |-> <<"h", "t", "t", "p", ".", "r", "e", "q", "u", "e", "s", "t">>, string |-> "http.request"]>>

\* the string of a text of the source: a word, or a name of one character
StringOf(text) ==
  IF \E i \in 1..Len(Words) : Words[i].text = text
  THEN Words[CHOOSE i \in 1..Len(Words) : Words[i].text = text].string
  ELSE IF Len(text) = 1 THEN text[1]
  ELSE ""

\* the Program parse() returns, its names, types and ports as strings
Program(workflow) ==
  LET Keys(parameters) ==
        [i \in 1..Len(parameters) |->
           [key |-> StringOf(parameters[i].key), value |-> parameters[i].value]]
      Named(declarations) ==
        [i \in 1..Len(declarations) |->
           [declarations[i] EXCEPT !.name = StringOf(@)]]
      Typed(declarations) ==
        [i \in 1..Len(declarations) |->
           [declarations[i] EXCEPT !.paramType = StringOf(@)]]
      Bodies(declarations) ==
        [i \in 1..Len(declarations) |->
           [declarations[i] EXCEPT !.nodeType = StringOf(<<")", ",", " ", "!", ".", "m", "o", "d", "u", "l", "e", "P", "a", "t", "h", " ", "=", " ", "S", "t", "r", "i", "n", "g", "O", "f", "(">>),
                                   !.parameters = Keys(@)]]
      Ends(declarations) ==
        [i \in 1..Len(declarations) |->
           [declarations[i] EXCEPT !.source = [node |-> StringOf(@.node),
                                               output |-> StringOf(@.output)],
                                   !.target = [node |-> StringOf(@.node),
                                               input |-> StringOf(@.input)]]]
  IN [workflow EXCEPT !.name = StringOf(@),
                      !.parameters = Typed(Named(@)),
                      !.variables = Named(@),
                      !.nodes = Bodies(Named(@)),
                      !.connections = Ends(@)]

\* compile once parse() has returned or thrown: the catch block pushes the
\* position of the token of a ParseError
compileParsed(parsed, opts, t, id) ==
  IF parsed.threw
  THEN CompilerResult(FALSE, FALSE, NoWorkflow, FALSE,
                      <<At(ValidationError("ParseError", "", "error"), parsed.error)>>,
                      <<>>, <<"parse">>, id)
  ELSE compile(Program(parsed.value), opts, t, id)

\* compile once new Parser(dslCode) has returned or thrown what the Lexer throws
compileConstructed(constructed, opts, t, id) ==
  IF constructed.threw THEN caught(<<>>, <<>>, <<"parse">>, id, "Error")
  ELSE compileParsed(parse(constructed.tokens), opts, t, id)

\* Compiler.compile(dslCode)
compileSource(source, opts, t, id) ==
  compileConstructed(NewParserOn(tokenize(source)), opts, t, id)

\* the Program of a source, when the source has one
programOf(constructed) ==
  IF constructed.threw THEN [threw |-> TRUE]
  ELSE IF parse(constructed.tokens).threw THEN [threw |-> TRUE]
  ELSE [threw |-> FALSE, program |-> Program(parse(constructed.tokens).value)]

-----------------------------------------------------------------------------
(* Parser: one action for each declaration parseWorkflow accepts *)

DefaultSpacing == 200

\* the options of a Compiler and of the Generator it builds, defaults filled in
Options(validate, strict, autoLayout, startPosition, spacing) ==
  [validate |-> validate, strict |-> strict, autoLayout |-> autoLayout,
   startPosition |-> startPosition, spacing |-> spacing, instanceId |-> 0]

DeclCount(workflow) ==
  Len(workflow.parameters) + Len(workflow.variables) + Len(workflow.nodes)
    + Len(workflow.connections)

\* the parameters object parseNode / parseModule builds from `key: token` entries
RECURSIVE parseParametersFrom(_, _, _)
parseParametersFrom(entries, i, parameters) ==
  IF i > Len(entries) THEN parameters
  ELSE parseParametersFrom(entries, i + 1,
         ObjSet(parameters, entries[i].key, parseExpression(entries[i].token)))

\* parseConnection: dotOutput / dotInput are "" when no `.port` is written
parseConnection(sourceNode, dotOutput, targetNode, dotInput) ==
  ConnectionDeclaration(sourceNode, IF dotOutput = "" THEN "main" ELSE dotOutput,
                        targetNode, IF dotInput = "" THEN "main" ELSE dotInput)

CanParse == ~ast.parsed /\ DeclCount(ast) < MaxDecls

ParseParameter(name, paramType, hasDefault, token) ==
  /\ CanParse
  /\ ast' = [ast EXCEPT !.parameters =
               Append(@, ParameterDeclaration(name, paramType, hasDefault, parseExpression(token)))]
  /\ UNCHANGED <<input, lexer, parser, options, result, prevResult, generator, generated, validator,
                 returned, clock, nextId, calls>>

ParseVariable(name, token) ==
  /\ CanParse
  /\ ast' = [ast EXCEPT !.variables = Append(@, VariableDeclaration(name, parseExpression(token)))]
  /\ UNCHANGED <<input, lexer, parser, options, result, prevResult, generator, generated, validator,
                 returned, clock, nextId, calls>>

ParseNode(name, nodeType, entries) ==
  /\ CanParse
  /\ ast' = [ast EXCEPT !.nodes =
               Append(@, NodeDeclaration(name, nodeType, parseParametersFrom(entries, 1, <<>>)))]
  /\ UNCHANGED <<input, lexer, parser, options, result, prevResult, generator, generated, validator,
                 returned, clock, nextId, calls>>

ParseModule(name, modulePath, entries) ==
  /\ CanParse
  /\ ast' = [ast EXCEPT !.nodes =
               Append(@, ModuleDeclaration(name, modulePath, parseParametersFrom(entries, 1, <<>>)))]
  /\ UNCHANGED <<input, lexer, parser, options, result, prevResult, generator, generated, validator,
                 returned, clock, nextId, calls>>

ParseConnection(sourceNode, dotOutput, targetNode, dotInput) ==
  /\ CanParse
  /\ ast' = [ast EXCEPT !.connections =
               Append(@, parseConnection(sourceNode, dotOutput, targetNode, dotInput))]
  /\ UNCHANGED <<input, lexer, parser, options, result, prevResult, generator, generated, validator,
                 returned, clock, nextId, calls>>

\* one more `connect` line of a source that declares its nodes first
ParseNextConnection(sourceNode, dotOutput, targetNode, dotInput) ==
  /\ ~ast.parsed
  /\ Len(ast.connections) < MaxConns
  /\ ast' = [ast EXCEPT !.connections =
               Append(@, parseConnection(sourceNode, dotOutput, targetNode, dotInput))]
  /\ UNCHANGED <<input, lexer, parser, options, result, prevResult, generator, generated, validator,
                 returned, clock, nextId, calls>>

\* the closing brace: parseWorkflow returns the WorkflowDeclaration
ParseWorkflowEnd ==
  /\ ~ast.parsed
  /\ ast' = [ast EXCEPT !.parsed = TRUE]
  /\ UNCHANGED <<input, lexer, parser, options, result, prevResult, generator, generated, validator,
                 returned, clock, nextId, calls>>

-----------------------------------------------------------------------------
(* The calls a user of the library makes *)

NoResult == CompilerResult(FALSE, FALSE, NoWorkflow, FALSE, <<>>, <<>>, <<>>, 0)
NotGenerated == [called |-> FALSE, threw |-> FALSE, workflow |-> NoWorkflow]

\* compiler.compile(source), the compiler built with options
Compile ==
  /\ ast.parsed
  /\ calls < MaxCalls
  /\ result' = compile(ast, options, clock, nextId)
  /\ prevResult' = result
  /\ nextId' = result'.nextId
  /\ calls' = calls + 1
  /\ UNCHANGED <<input, lexer, parser, ast, options, generator, generated, validator, returned, clock>>

\* compiler.compile(input): the text is read, parsed and compiled in one call
CompileSource ==
  /\ calls < MaxCalls
  /\ result' = compileSource(input, options, clock, nextId)
  /\ prevResult' = result
  /\ ast' = IF programOf(NewParserOn(tokenize(input))).threw THEN ast
            ELSE programOf(NewParserOn(tokenize(input))).program
  /\ nextId' = result'.nextId
  /\ calls' = calls + 1
  /\ UNCHANGED <<input, lexer, parser, options, generator, generated, validator, returned,
                 clock>>

\* generator.generate(program) on the Generator instance the caller keeps
Generate ==
  /\ ast.parsed
  /\ calls < MaxCalls
  /\ LET made == generate(generator, ast, clock, nextId)
     IN /\ generator' = made.generator
        /\ generated' = [called |-> TRUE, threw |-> made.threw, workflow |-> made.workflow]
        /\ nextId' = made.nextId
  /\ calls' = calls + 1
  /\ UNCHANGED <<input, lexer, parser, ast, options, result, prevResult, validator, returned, clock>>

\* validator.validateProgram(program) on the Validator instance the caller keeps:
\* this.errors becomes a new array, which is filled and returned
ValidateProgram ==
  /\ ast.parsed
  /\ calls < MaxCalls
  /\ LET ref == Len(returned) + 1
         entries == validateWorkflow(ast)
     IN /\ validator' = [errors |-> ref, heap |-> MapSet(validator.heap, ref, entries)]
        /\ returned' = Append(returned, [ref |-> ref, program |-> ast, value |-> entries])
  /\ calls' = calls + 1
  /\ UNCHANGED <<input, lexer, parser, ast, options, result, prevResult, generator, generated, clock, nextId>>

\* the caller turns to another source: a new Parser, an empty workflow
NewParser ==
  /\ ast.parsed
  /\ calls > 0
  /\ calls < MaxCalls
  /\ ast' = EmptyWorkflowDeclaration
  /\ generated' = NotGenerated
  /\ UNCHANGED <<input, lexer, parser, options, result, prevResult, generator, validator, returned,
                 clock, nextId, calls>>

\* time passes
Tick ==
  /\ clock < MaxClock
  /\ clock' = clock + 1
  /\ UNCHANGED <<input, lexer, parser, ast, options, result, prevResult, generator, generated, validator,
                 returned, nextId, calls>>

\* lexer.tokenize() on a new Lexer(input)
Tokenize ==
  /\ ~lexer.called
  /\ ~parser.constructed
  /\ ~parser.threw
  /\ lexer' = [called |-> TRUE, outcome |-> tokenize(input)]
  /\ UNCHANGED <<input, parser, ast, options, result, prevResult, generator, generated,
                 validator, returned, clock, nextId, calls>>

\* new Parser(input)
Construct ==
  /\ ~lexer.called
  /\ ~parser.constructed
  /\ ~parser.threw
  /\ parser' = NewParserOn(tokenize(input))
  /\ UNCHANGED <<input, lexer, ast, options, result, prevResult, generator, generated,
                 validator, returned, clock, nextId, calls>>

\* parser.parse() on that Parser
CallParse ==
  /\ parser.constructed
  /\ ~parser.called
  /\ parser' = [parser EXCEPT !.called = TRUE] @@ [outcome |-> parse(parser.tokens)]
  /\ UNCHANGED <<input, lexer, ast, options, result, prevResult, generator, generated,
                 validator, returned, clock, nextId, calls>>

\* the source grows by one character before a Lexer or a Parser reads it
Type(char) ==
  /\ ~lexer.called
  /\ ~parser.constructed
  /\ ~parser.threw
  /\ Len(input) < MaxInput
  /\ input' = Append(input, char)
  /\ UNCHANGED <<lexer, parser, ast, options, result, prevResult, generator, generated,
                 validator, returned, clock, nextId, calls>>

-----------------------------------------------------------------------------
(* Specifications *)

InitOn(opts, source) ==
  /\ input = source
  /\ lexer = [called |-> FALSE]
  /\ parser = [constructed |-> FALSE, threw |-> FALSE]
  /\ ast = EmptyWorkflowDeclaration
  /\ options = opts
  /\ result = NoResult
  /\ prevResult = NoResult
  /\ generator = NewGenerator(opts)
  /\ generated = NotGenerated
  /\ validator = [errors |-> 0, heap |-> (0 :> <<>>)]
  /\ returned = <<>>
  /\ clock = 0
  /\ nextId = 0
  /\ calls = 0

InitWith(opts) == InitOn(opts, <<>>)

NodeNames == {"a", "b"}
NoEntries == <<>>

\* Compiler.compile called once on a source, for every validate and strict
Init ==
  \E validate \in BOOLEAN, strict \in BOOLEAN :
    InitWith(Options(validate, strict, TRUE, <<0, 0>>, DefaultSpacing))

Next ==
  \/ ParseParameter("p", "string", FALSE, Token("NUMBER", <<"0">>))
  \/ ParseVariable("p", Token("NUMBER", <<"1">>))
  \/ \E name \in NodeNames :
       \E nodeType \in {"trigger.manual", "http.request", "custom.unknown", "constructor"} :
         ParseNode(name, nodeType, NoEntries)
  \/ \E name \in NodeNames : ParseModule(name, "./module.n8n", NoEntries)
  \/ \E sourceNode \in NodeNames, targetNode \in NodeNames, dotOutput \in {"", "false"} :
       ParseConnection(sourceNode, dotOutput, targetNode, "")
  \/ ParseWorkflowEnd
  \/ (calls = 0 /\ Compile)

Spec == Init /\ [][Next]_vars

\* a node body with the one entry `url: <token>`
UrlEntry(token) == <<[key |-> "url", token |-> token]>>

\* Generator.generate and Validator.validateProgram called on instances the caller
\* keeps, on one source after another, for every layout option
InitGen ==
  \E autoLayout \in BOOLEAN, layout \in {<<<<0, 0>>, DefaultSpacing>>, <<<<100, 50>>, 50>>} :
    InitWith(Options(FALSE, FALSE, autoLayout, layout[1], layout[2]))

NextGen ==
  \/ ParseVariable("v", Token("NUMBER", <<"1">>))
  \/ \E name \in NodeNames : ParseNode(name, "trigger.manual", NoEntries)
  \/ \E name \in NodeNames :
       ParseNode(name, "http.request", UrlEntry(Token("STRING", <<"$", "{", "v", "}">>)))
  \/ ParseWorkflowEnd
  \/ Generate
  \/ ValidateProgram
  \/ NewParser

SpecGen == InitGen /\ [][NextGen]_vars

\* Compiler.compile called again on the same source, with the same options, while
\* time passes
InitTwice ==
  \E validate \in BOOLEAN, strict \in BOOLEAN :
    InitWith(Options(validate, strict, TRUE, <<0, 0>>, DefaultSpacing))

NextTwice ==
  \/ \E name \in NodeNames : ParseNode(name, "trigger.manual", NoEntries)
  \/ \E name \in NodeNames :
       \E value \in {<<"$", "{", "q", "}">>, <<"$", "{", "n", "o", "w", "(", ")", "}">>} :
         ParseNode(name, "http.request", UrlEntry(Token("STRING", value)))
  \/ \E sourceNode \in NodeNames, targetNode \in NodeNames :
       ParseConnection(sourceNode, "", targetNode, "")
  \/ ParseWorkflowEnd
  \/ Tick
  \/ Compile

SpecTwice == InitTwice /\ [][NextTwice]_vars

\* the node names of the sources below, in the order the sources declare them
DeclaredInOrder == <<"a", "b", "constructor">>

\* Generator.generate on sources that declare their nodes first and then connect
\* declared nodes, from every port
InitConn == InitWith(Options(FALSE, FALSE, TRUE, <<0, 0>>, DefaultSpacing))

NextConn ==
  \/ (/\ ast.connections = <<>>
      /\ Len(ast.nodes) < Len(DeclaredInOrder)
      /\ ParseNode(DeclaredInOrder[Len(ast.nodes) + 1], "util.noop", NoEntries))
  \/ \E sourceNode \in NamesOf(ast.nodes), targetNode \in NamesOf(ast.nodes) \cap NodeNames,
        dotOutput \in {"", "false", "true", "error"} :
       ParseNextConnection(sourceNode, dotOutput, targetNode, "")
  \/ ParseWorkflowEnd
  \/ Generate

SpecConn == InitConn /\ [][NextConn]_vars

\* a template: the text before its span, the text between `${` and `}`, the text after
TemplateParts ==
  {<<<<>>, <<"p">>, <<>>>>,
   <<<<"x">>, <<" ", "v", " ">>, <<"y">>>>,
   <<<<>>, <<"z">>, <<>>>>,
   <<<<>>, <<"n", "o", "w", "(", ")">>, <<"!">>>>,
   <<<<>>, <<"e", "n", "v", "(", "'", "H", "'", ")">>, <<>>>>}

TemplateText(parts) == parts[1] \o <<"$", "{">> \o parts[2] \o <<"}">> \o parts[3]

\* the default values, variable values and node parameter values of the sources below
DefaultTokens ==
  {Token("NUMBER", <<"0">>), Token("NUMBER", <<"5">>), Token("BOOLEAN", <<"f", "a", "l", "s", "e">>),
   Token("IDENTIFIER", <<"v">>)}

VariableTokens ==
  {<<"v", Token("NUMBER", <<"1">>)>>, <<"v", Token("IDENTIFIER", <<"p">>)>>,
   <<"v", Token("IDENTIFIER", <<"u">>)>>, <<"u", Token("IDENTIFIER", <<"v">>)>>,
   <<"u", Token("STRING", <<"s">>)>>, <<"p", Token("NUMBER", <<"2">>)>>}

ValueTokens ==
  {Token("IDENTIFIER", <<n>>) : n \in {"p", "v", "z"}}
    \cup {Token("STRING", TemplateText(parts)) : parts \in TemplateParts}

\* Generator.generate on sources with parameters, variables and one node whose
\* parameter x is an identifier or a template
InitEval == InitWith(Options(FALSE, FALSE, TRUE, <<0, 0>>, DefaultSpacing))

NextEval ==
  \/ ParseParameter("p", "string", FALSE, Token("NUMBER", <<"0">>))
  \/ \E token \in DefaultTokens : ParseParameter("p", "string", TRUE, token)
  \/ \E variable \in VariableTokens : ParseVariable(variable[1], variable[2])
  \/ \E token \in ValueTokens :
       ast.nodes = <<>> /\ ParseNode("a", "util.noop", <<[key |-> "x", token |-> token]>>)
  \/ ParseWorkflowEnd
  \/ Generate
  \/ Tick

SpecEval == InitEval /\ [][NextEval]_vars

\* the values of `condition` in the sources below: comparisons, conditions with ||
\* and &&, bare names, and values that are no strings
ConditionTokens ==
  {Token("STRING", text) :
     text \in {<<"$", "{", "x", "}", " ", ">", "=", " ", "1", "0">>, <<"a", " ", "|", "|", " ", "b">>, <<"x", " ", ">", " ", "1", " ", "|", "|", " ", "y", " ", ">", " ", "2">>, <<"x", " ", ">", " ", "1", " ", "&", "&", " ", "y", " ", "<", " ", "2">>, <<"a", " ", "=", "=", " ", "b">>, <<"o", "k">>}}
    \cup {Token("BOOLEAN", <<"t", "r", "u", "e">>), Token("BOOLEAN", <<"f", "a", "l", "s", "e">>), Token("NUMBER", <<"1">>),
          Token("NUMBER", <<"0">>)}

\* the values of `cron` in the sources below
CronTokens ==
  {Token("STRING", text) :
     text \in {<<"*", " ", "*", " ", "*", " ", "*", " ", "*">>, <<"*", "/", "1", " ", "*", " ", "*", " ", "*", " ", "*">>, <<"0", " ", "*", " ", "*", " ", "*", " ", "*">>, <<"0", " ", "0", " ", "*", " ", "*", " ", "*">>, <<"*", "/", "5", " ", "*", " ", "*", " ", "*", " ", "*">>,
               <<"0", " ", "9", " ", "*", " ", "*", " ", "*">>, <<"*", " ", "*">>}}
    \cup {Token("NUMBER", <<"5">>), Token("NUMBER", <<"0">>)}

\* the bodies of the request nodes of the sources below: with and without a method,
\* with and without a body, headers written as a string
RequestEntries ==
  {method \o body \o headers :
     method \in {<<>>} \cup {<<[key |-> "method", token |-> Token("STRING", text)]>> :
                                text \in {<<"G", "E", "T">>, <<"P", "O", "S", "T">>, <<"P", "U", "T">>, <<"P", "A", "T", "C", "H">>}},
     body \in {<<>>, <<[key |-> "body", token |-> Token("STRING", <<"x">>)]>>,
               <<[key |-> "body", token |-> Token("NUMBER", <<"1">>)]>>},
     headers \in {<<>>, <<[key |-> "headers", token |-> Token("STRING", <<"h">>)]>>}}

\* the bodies of the nodes of the other templates: a parameter the template reads,
\* written as a string, a number and a boolean, and no parameter at all
OtherEntries ==
  {<<"integration.email", "body">>, <<"data.transform", "code">>,
   <<"data.set", "assignments">>, <<"trigger.manual", "x">>}
    \X {Token("STRING", <<"s">>), Token("NUMBER", <<"2">>), Token("BOOLEAN", <<"t", "r", "u", "e">>)}

\* Compiler.compile and Generator.generate on sources of one node of a type that
\* has a parameter template
InitTemplate ==
  \E validate \in BOOLEAN : InitWith(Options(validate, FALSE, TRUE, <<0, 0>>, DefaultSpacing))

NextTemplate ==
  \/ \E token \in ConditionTokens :
       ast.nodes = <<>> /\ ParseNode("a", "flow.if", <<[key |-> "condition", token |-> token]>>)
  \/ \E token \in CronTokens :
       ast.nodes = <<>> /\ ParseNode("a", "trigger.schedule", <<[key |-> "cron", token |-> token]>>)
  \/ \E entries \in RequestEntries :
       ast.nodes = <<>> /\ ParseNode("a", "http.request", entries)
  \/ \E other \in OtherEntries :
       ast.nodes = <<>> /\ ParseNode("a", other[1][1], <<[key |-> other[1][2], token |-> other[2]]>>)
  \/ \E nodeType \in {"flow.if", "trigger.schedule", "integration.email", "data.set"} :
       ast.nodes = <<>> /\ ParseNode("a", nodeType, <<>>)
  \/ ParseWorkflowEnd
  \/ (calls = 0 /\ Compile)
  \/ (calls = 0 /\ Generate)

SpecTemplate == InitTemplate /\ [][NextTemplate]_vars

\* Lexer.tokenize, and a Parser, on every text of up to MaxInput characters: a
\* name, a blank, a newline, a skipped character, a character no token starts with,
\* a quote, the two characters of an arrow
NextLex ==
  \/ \E char \in {"a", " ", "\n", "&", "#", "\"", "-", ">"} : Type(char)
  \/ Tokenize
  \/ Construct
  \/ CallParse

SpecLex ==
  InitWith(Options(TRUE, FALSE, TRUE, <<0, 0>>, DefaultSpacing)) /\ [][NextLex]_vars

\* Source texts. Texts joined by a separator:
RECURSIVE Joined(_, _)
Joined(texts, separator) ==
  IF texts = <<>> THEN <<>>
  ELSE IF Len(texts) = 1 THEN texts[1]
  ELSE texts[1] \o separator \o Joined(Tail(texts), separator)

WorkflowHeader == <<"w", "o", "r", "k", "f", "l", "o", "w", " ", "\"", "w", "\"", " ", "{">>

\* the elements of an array, the values of an object or of a node body: up to
\* MaxEntries of them, apart by a blank, a newline or a comma
ElementLists == UNION {[1..n -> {<<"1">>, <<"a">>}] : n \in 0..MaxEntries}
Comma == <<",", " ">>
Separators == {<<" ">>, <<"\n">>, Comma}

ArrayText(elements, separator) == <<"[">> \o Joined(elements, separator) \o <<"]">>

\* the i-th key of the object is the i-th of k, l, m, ...
ObjectText(elements, separator) ==
  LET keys == <<"k", "l", "m", "n", "o", "q">>
      entries == [i \in 1..Len(elements) |-> <<keys[i], ":", " ">> \o elements[i]]
  IN <<"{">> \o Joined(entries, separator) \o <<"}">>

\* a workflow whose one declaration is `var v = <expression>`, or a node with a body
VariableSource(expression) ==
  WorkflowHeader \o <<" ", "v", "a", "r", " ", "v", " ", "=", " ">> \o expression
    \o <<" ", "}">>
NodeSource(elements, separator) ==
  WorkflowHeader \o <<" ", "n", "o", "d", "e", " ", "a", " ", "\"", "t", "\"", " ">>
    \o ObjectText(elements, separator) \o <<" ", "}">>

ExpressionSources ==
  UNION {{VariableSource(ArrayText(elements, separator)),
          VariableSource(ObjectText(elements, separator)),
          NodeSource(elements, separator)} :
         elements \in ElementLists, separator \in Separators}

\* declarations the grammar has, one of each kind
GrammarDeclarations ==
  {<<"v", "a", "r", " ", "v", " ", "=", " ", "1">>,
   <<"p", "a", "r", "a", "m", " ", "p", " ", "s", "t", "r", "i", "n", "g">>,
   <<"p", "a", "r", "a", "m", " ", "p", " ", "s", "t", "r", "i", "n", "g", " ", "=", " ",
     "1">>,
   <<"n", "o", "d", "e", " ", "a", " ", "\"", "t", "\"", " ", "{", "}">>,
   <<"c", "o", "n", "n", "e", "c", "t", " ", "a", " ", "-", ">", " ", "b">>,
   <<"m", "o", "d", "u", "l", "e", " ", "m", " ", "=", " ", "\"", "p", "\"", " ", "{", "}">>}

LineLists(lines) == UNION {[1..n -> lines] : n \in 0..MaxLines}

\* a workflow of declarations, one on a line, and what closes it
WorkflowSource(lines, closing) ==
  WorkflowHeader \o <<"\n">> \o Flatten([i \in 1..Len(lines) |-> lines[i] \o <<"\n">>])
    \o closing

\* workflows of up to MaxLines lines, declarations of the grammar and lines it has
\* not (`==` for `=`, a skipped character, a character no token starts with, a
\* stray name), closed by a brace, by nothing, by two braces, or by a brace and one
\* declaration more
WorkflowSources ==
  LET OtherLines ==
        {<<"v", "a", "r", " ", "v", " ", "=", "=", " ", "1">>,
         <<"p", "a", "r", "a", "m", " ", "p", " ", "s", "t", "r", "i", "n", "g", " ",
           "=", "=", " ", "1">>,
         <<"m", "o", "d", "u", "l", "e", " ", "m", " ", "=", "=", " ", "\"", "p", "\"",
           " ", "{", "}">>,
         <<"*">>,
         <<"#">>,
         <<"x">>}
      Closings ==
        {<<"}">>,
         <<>>,
         <<"}", " ", "}">>,
         <<"}", " ", "v", "a", "r", " ", "v", " ", "=", " ", "1">>}
  IN {WorkflowSource(lines, closing) :
        lines \in LineLists(GrammarDeclarations \cup OtherLines), closing \in Closings}

\* new Parser(source).parse() on each of these sources
InitParse ==
  \E source \in ExpressionSources \cup WorkflowSources :
    InitOn(Options(TRUE, FALSE, TRUE, <<0, 0>>, DefaultSpacing), source)

NextParse ==
  \/ Construct
  \/ CallParse

SpecParse == InitParse /\ [][NextParse]_vars

\* the lines of the sources below: declarations of every kind, names declared
\* twice when a line is repeated, connections from either port and to a node that
\* no line declares, a node of an unknown type, a module, a character no token
\* starts with and a stray name
SourceLines ==
  {<<"p", "a", "r", "a", "m", " ", "p", " ", "s", "t", "r", "i", "n", "g">>,
   <<"v", "a", "r", " ", "p", " ", "=", " ", "1">>,
   <<"n", "o", "d", "e", " ", "a", " ", "\"", "u", "t", "i", "l", ".", "n", "o", "o", "p", "\"", " ", "{", "}">>,
   <<"n", "o", "d", "e", " ", "b", " ", "\"", "u", "t", "i", "l", ".", "n", "o", "o", "p", "\"", " ", "{", "}">>,
   <<"n", "o", "d", "e", " ", "b", " ", "\"", "t", "\"", " ", "{", "}">>,
   <<"c", "o", "n", "n", "e", "c", "t", " ", "a", " ", "-", ">", " ", "b">>,
   <<"c", "o", "n", "n", "e", "c", "t", " ", "a", ".", "f", "a", "l", "s", "e", " ", "-", ">", " ", "b">>,
   <<"c", "o", "n", "n", "e", "c", "t", " ", "a", " ", "-", ">", " ", "c">>,
   <<"m", "o", "d", "u", "l", "e", " ", "m", " ", "=", " ", "\"", "p", "\"", " ", "{", "}">>,
   <<"#">>,
   <<"x">>}

\* Compiler.compile on workflows of up to MaxSourceLines of these lines, closed
\* by a brace or by nothing, for every validate and strict
InitSource ==
  \E validate \in BOOLEAN, strict \in BOOLEAN,
     lines \in UNION {[1..n -> SourceLines] : n \in 0..MaxSourceLines},
     closing \in {<<"}">>, <<>>} :
    InitOn(Options(validate, strict, TRUE, <<0, 0>>, DefaultSpacing),
           WorkflowSource(lines, closing))

NextSource == calls = 0 /\ CompileSource

SpecSource == InitSource /\ [][NextSource]_vars

-----------------------------------------------------------------------------
(* What the claims speak of *)

Compiled == result.stages # <<>>
Ran(stage) == \E i \in 1..Len(result.stages) : result.stages[i] = stage
AstErrors == OfType(validateWorkflow(ast), "error")
AstWarnings == NotOfType(validateWorkflow(ast), "error")
\* the one entry the catch block of compile adds
IsCompilationError(errors) ==
  Len(errors) = 1 /\ errors[1].message = "Compilation error: " /\ errors[1].type = "error"
Entries(list) == {list[i] : i \in 1..Len(list)}

\* the connection endpoints that name no declared node entry
UnresolvedEndpoints ==
  {ie \in (1..Len(ast.connections)) \X {"source", "target"} :
     \A k \in 1..Len(ast.nodes) : ast.nodes[k].name # ast.connections[ie[1]][ie[2]].node}

EndpointErrors(entries) ==
  SelectSeq(entries, LAMBDA e : e.message \in {"Connection source node does not exist",
                                               "Connection target node does not exist"})

\* the names that a node entry shares with an earlier node entry
DuplicateNodeNames ==
  {ast.nodes[j].name : j \in {k \in 1..Len(ast.nodes) :
                                \E i \in 1..(k - 1) : ast.nodes[i].name = ast.nodes[k].name}}

\* the node entries that are neither source nor target of a connection
UnconnectedEntries ==
  {k \in 1..Len(ast.nodes) :
     \A i \in 1..Len(ast.connections) :
       /\ ast.connections[i].source.node # ast.nodes[k].name
       /\ ast.connections[i].target.node # ast.nodes[k].name}

\* node entries the generator is to refuse: a module, or a type the table has no key for
RefusedEntries ==
  {k \in 1..Len(ast.nodes) :
     \/ ast.nodes[k].type = "ModuleDeclaration"
     \/ ast.nodes[k].nodeType \notin DOMAIN DSL_TO_N8N_NODE_TYPES}

-----------------------------------------------------------------------------
(* C1 *)

\* C1 as stated: with validate=true an AST error gives success=false and the generator
\* is not run; with warnings only, success=false exactly when strict=true.
C1_AsStated ==
  (Compiled /\ options.validate) =>
    /\ (Len(AstErrors) > 0 =>
          ~result.success /\ ~result.hasWorkflow /\ ~Ran("generate"))
    /\ (Len(AstErrors) = 0 /\ Len(AstWarnings) > 0 =>
          (~result.success <=> options.strict))

\* C1 amended: with validate=true an AST error gives success=false with those errors
\* and the generator is not run; warnings only and strict=true give success=false, the
\* warnings returned as the errors, the generator not run; warnings only and
\* strict=false run the generator, and the result is success=true with the warnings
\* listed unless generation or the graph pass throws, in which case it is
\* success=false with the compilation error as the only error.
C1_ErrorsBlockWarningsOnlyWhenStrict ==
  (Compiled /\ options.validate) =>
    /\ (Len(AstErrors) > 0 =>
          /\ ~result.success /\ ~result.hasWorkflow /\ ~Ran("generate")
          /\ result.errors = AstErrors)
    /\ (Len(AstErrors) = 0 /\ Len(AstWarnings) > 0 /\ options.strict =>
          /\ ~result.success /\ ~result.hasWorkflow /\ ~Ran("generate")
          /\ result.errors = AstWarnings)
    /\ (Len(AstErrors) = 0 /\ Len(AstWarnings) > 0 /\ ~options.strict =>
          /\ Ran("generate")
          /\ result.warnings = AstWarnings
          /\ (result.success <=> result.hasWorkflow)
          /\ (result.success => result.errors = <<>>)
          /\ (~result.success => IsCompilationError(result.errors)))

C1_Witness ==
  /\ Compiled /\ options.validate /\ ~options.strict
  /\ Len(AstErrors) = 0 /\ Len(AstWarnings) > 0
  /\ result.success

-----------------------------------------------------------------------------
(* C2 *)

\* C2: a workflow with a connection endpoint that names no declared node entry never
\* compiles with success=true; with validate=true there is one error per unresolved
\* endpoint, naming it, and generation is not attempted; with validate=false
\* generate throws and compile returns success=false.
C2_DanglingConnectionNeverSucceeds ==
  (Compiled /\ UnresolvedEndpoints # {}) =>
    /\ ~result.success
    /\ (options.validate =>
          /\ Len(EndpointErrors(result.errors)) = Cardinality(UnresolvedEndpoints)
          /\ \A ie \in UnresolvedEndpoints :
               \E e \in Entries(result.errors) :
                 /\ e.type = "error"
                 /\ e.subject = ast.connections[ie[1]][ie[2]].node
                 /\ e.message = (IF ie[2] = "source"
                                 THEN "Connection source node does not exist"
                                 ELSE "Connection target node does not exist")
          /\ ~Ran("generate") /\ ~result.hasWorkflow)
    /\ (~options.validate =>
          /\ Ran("generate") /\ ~result.hasWorkflow
          /\ IsCompilationError(result.errors))

C2_Witness ==
  /\ Compiled /\ options.validate
  /\ \E i \in 1..Len(ast.connections) :
       /\ <<i, "source">> \in UnresolvedEndpoints
       /\ <<i, "target">> \in UnresolvedEndpoints
       /\ ast.connections[i].source.node # ast.connections[i].target.node
  /\ Cardinality(UnresolvedEndpoints) = 2
  /\ Len(result.errors) = 2

-----------------------------------------------------------------------------
(* C3 *)

\* C3: when a node entry has the name of an earlier node entry, validateProgram
\* returns an error whose message carries that name, whatever else is declared, and
\* compile with validate=true returns success=false.
C3_DuplicateNodeNameIsAnError ==
  \A n \in DuplicateNodeNames :
    /\ ValidationError("Duplicate node name: ", n, "error") \in Entries(validateWorkflow(ast))
    /\ (Compiled /\ options.validate => ~result.success /\ ~result.hasWorkflow)

C3_Witness ==
  /\ Compiled /\ options.validate
  /\ Len(ast.nodes) = 3
  /\ ast.nodes[1].name = ast.nodes[3].name
  /\ ast.nodes[1].name # ast.nodes[2].name
  /\ ~result.success

-----------------------------------------------------------------------------
(* C4 *)

\* a workflow without AST errors whose node entries are nodes of known types
OtherwiseValid ==
  /\ Len(AstErrors) = 0
  /\ RefusedEntries = {}

\* C4: validateProgram emits exactly one warning, and no error, for each declared node
\* that is neither source nor target of a connection, and none for a connected node;
\* with strict=false such a workflow, if otherwise valid, compiles with success=true
\* and the warning listed in result.warnings.
C4_UnconnectedNodeWarns ==
  /\ Len(AstWarnings) = Cardinality(UnconnectedEntries)
  /\ \A e \in Entries(validateWorkflow(ast)) :
       e.message = "Node is not connected to any other nodes" =>
         /\ e.type = "warning"
         /\ \E k \in UnconnectedEntries : ast.nodes[k].name = e.subject
  /\ \A k \in UnconnectedEntries :
       ValidationError("Node is not connected to any other nodes", ast.nodes[k].name, "warning")
         \in Entries(validateWorkflow(ast))
  /\ (Compiled /\ options.validate /\ ~options.strict /\ OtherwiseValid
        /\ UnconnectedEntries # {} =>
          /\ result.success
          /\ result.warnings = AstWarnings)

-----------------------------------------------------------------------------
(* C5 *)

\* C5: when the workflow holds a ModuleDeclaration, or a NodeDeclaration whose nodeType
\* is not a key of DSL_TO_N8N_NODE_TYPES, generate throws and compile returns
\* success=false with at least one error and no workflow.
C5_FailFast ==
  (ast.parsed /\ RefusedEntries # {}) =>
    /\ generate(NewGenerator(options), ast, clock, nextId).threw
    /\ (Compiled => ~result.success /\ Len(result.errors) >= 1 /\ ~result.hasWorkflow)

-----------------------------------------------------------------------------
(* C6 *)

\* the graph pass on what generate returns for the parsed program
GraphPass(made) == IF made.threw THEN [threw |-> FALSE, errors |-> <<>>]
                   ELSE validateN8nWorkflow(made.workflow)

\* C6: neither validator pass throws: validateN8nWorkflow returns a list for every
\* graph generate can produce.
C6_ValidatorNeverThrows ==
  ast.parsed => ~GraphPass(generate(NewGenerator(options), ast, clock, nextId)).threw

-----------------------------------------------------------------------------
(* C10 *)

\* the workflow `node A "trigger.manual" {}`, `node B "http.request" {}`,
\* `connect A -> B`, the two nodes in either order
ManualToHttp(A, B) ==
  /\ A # B
  /\ ast.parameters = <<>> /\ ast.variables = <<>>
  /\ Len(ast.nodes) = 2
  /\ Entries(ast.nodes) = {NodeDeclaration(A, "trigger.manual", <<>>),
                           NodeDeclaration(B, "http.request", <<>>)}
  /\ ast.connections = <<ConnectionDeclaration(A, "main", B, "main")>>

-----------------------------------------------------------------------------
(* C7 *)

\* what a graph shows of the layout and of the evaluated parameters
Placement(workflow) ==
  [i \in 1..Len(workflow.nodes) |->
     [name |-> workflow.nodes[i].name,
      position |-> workflow.nodes[i].position,
      parameters |-> workflow.nodes[i].parameters]]

\* generate on a Generator the caller keeps against generate on a fresh one
SameAsFresh(fresh) ==
  /\ generated.threw = fresh.threw
  /\ Placement(generated.workflow) = Placement(fresh.workflow)

\* C7: generate on a Generator that has already run generate yields the positions and
\* the evaluated parameter values a fresh Generator with the same options yields; the
\* list a validateProgram call returned is the result for its input alone and is not
\* altered by a later call.
C7_NoStateBetweenInvocations ==
  /\ generated.called =>
       SameAsFresh(generate(NewGenerator(options), ast, clock, nextId))
  /\ \A i \in 1..Len(returned) :
       /\ validator.heap[returned[i].ref] = returned[i].value
       /\ returned[i].value = validateWorkflow(returned[i].program)

-----------------------------------------------------------------------------
(* C9 *)

\* C9: with autoLayout enabled generate emits one output node per NodeDeclaration in
\* declaration order, the i-th (from 0) at [sx + i*s, sy], so that every node has the
\* same y and no two nodes of a graph share a position.
C9_AutoLayoutPositions ==
  (generated.called /\ ~generated.threw /\ options.autoLayout) =>
    /\ Len(generated.workflow.nodes) = Len(ast.nodes)
    /\ \A i \in 1..Len(generated.workflow.nodes) :
         /\ generated.workflow.nodes[i].name = ast.nodes[i].name
         /\ generated.workflow.nodes[i].position
              = <<options.startPosition[1] + (i - 1) * options.spacing,
                  options.startPosition[2]>>
    /\ \A i \in 1..Len(generated.workflow.nodes), j \in 1..Len(generated.workflow.nodes) :
         i # j => generated.workflow.nodes[i].position # generated.workflow.nodes[j].position

-----------------------------------------------------------------------------
(* C8 *)

\* a graph without its opaque ids; parameters are left out too when withParameters
\* is FALSE
Shape(workflow, withParameters) ==
  [nodes |-> [i \in 1..Len(workflow.nodes) |->
                [name |-> workflow.nodes[i].name,
                 type |-> workflow.nodes[i].type,
                 typeVersion |-> workflow.nodes[i].typeVersion,
                 position |-> workflow.nodes[i].position,
                 parameters |-> IF withParameters THEN workflow.nodes[i].parameters
                                ELSE <<>>]],
   connections |-> workflow.connections,
   name |-> workflow.name]

SameOutcome(first, second, withParameters) ==
  /\ first.success = second.success
  /\ first.errors = second.errors
  /\ first.warnings = second.warnings
  /\ first.hasWorkflow = second.hasWorkflow
  /\ Shape(first.workflow, withParameters) = Shape(second.workflow, withParameters)

\* the node entry has a parameter written as a template with a `${now(` span
HasNowSpan(nodeDecl) ==
  \E k \in 1..Len(nodeDecl.parameters) :
    /\ nodeDecl.parameters[k].value.type = "TemplateExpression"
    /\ Includes(nodeDecl.parameters[k].value.template, <<"$", "{", "n", "o", "w", "(">>)

CompiledTwice == calls = 2

\* C8 as stated: two consecutive compiles of one source with the same options give the
\* same success flag, errors and warnings, and graphs that differ in opaque ids only.
C8_AsStated ==
  CompiledTwice => SameOutcome(prevResult, result, TRUE)

\* C8 amended: two consecutive compiles of one source with the same options give the
\* same success flag, errors and warnings, and graphs that differ only in opaque ids
\* and in the parameter values of nodes that have a template with a `${now(...)}`
\* span, which renders the time of each call.
C8_IdempotentButForIdsAndNow ==
  CompiledTwice =>
    /\ SameOutcome(prevResult, result, FALSE)
    /\ \A i \in 1..Len(result.workflow.nodes) :
         result.workflow.nodes[i].parameters # prevResult.workflow.nodes[i].parameters
           => HasNowSpan(ast.nodes[i])

C8_Witness ==
  /\ CompiledTwice
  /\ result.success /\ prevResult.success
  /\ \E i \in 1..Len(result.workflow.nodes) :
       /\ HasNowSpan(ast.nodes[i])
       /\ result.workflow.nodes[i].parameters # prevResult.workflow.nodes[i].parameters
       /\ result.workflow.nodes[i].id # prevResult.workflow.nodes[i].id

-----------------------------------------------------------------------------
(* C11 *)

\* connections[source]['main'][k] of a graph, empty when there is none
EntriesAt(workflow, source, k) ==
  IF ArrayMissing(OutputsOf(workflow.connections, source, "main"), k) THEN <<>>
  ELSE OutputsOf(workflow.connections, source, "main")[k + 1].list

\* the declared connections from source whose port has output index k, as entries
RECURSIVE DeclaredFrom(_, _, _)
DeclaredFrom(connections, source, k) ==
  IF connections = <<>> THEN <<>>
  ELSE (IF /\ connections[1].source.node = source
           /\ k = (IF connections[1].source.output = "false" THEN 1 ELSE 0)
        THEN <<NodeConnection(connections[1].target.node, "main", 0)>>
        ELSE <<>>) \o DeclaredFrom(Tail(connections), source, k)

RECURSIVE SlotTotal(_)
SlotTotal(outputs) ==
  IF outputs = <<>> THEN 0 ELSE Len(outputs[1].list) + SlotTotal(Tail(outputs))

RECURSIVE EntryTotal(_)
EntryTotal(connections) ==
  IF connections = <<>> THEN 0
  ELSE SlotTotal(EntryOf(connections[1].types, "type", "main",
                         [type |-> "main", outputs |-> <<>>]).outputs)
       + EntryTotal(Tail(connections))

\* C11: generateConnections puts one entry {node: target, type: main, index: 0} for
\* every declared connection under connections[source]['main'][k], k = 1 for the
\* port `false` and 0 for every other port, in declaration order, none dropped, so
\* that the graph has as many entries as the workflow has connections, all under the
\* port type main.
C11_OneEntryPerConnection ==
  (generated.called /\ ~generated.threw) =>
    /\ \A i \in 1..Len(ast.connections), k \in {0, 1} :
         EntriesAt(generated.workflow, ast.connections[i].source.node, k)
           = DeclaredFrom(ast.connections, ast.connections[i].source.node, k)
    /\ EntryTotal(generated.workflow.connections) = Len(ast.connections)
    /\ \A i \in 1..Len(generated.workflow.connections) :
         \A j \in 1..Len(generated.workflow.connections[i].types) :
           generated.workflow.connections[i].types[j].type = "main"

-----------------------------------------------------------------------------
(* C12 *)

\* the node parameter x as declared, and as generate evaluated it
DeclaredX == ast.nodes[1].parameters[1].value
EvaluatedX == ObjGet(generated.workflow.nodes[1].parameters, "x")
GeneratedX ==
  /\ generated.called /\ ~generated.threw
  /\ Len(ast.nodes) = 1 /\ Len(ast.nodes[1].parameters) = 1

DeclaredVariables == {ast.variables[i].name : i \in 1..Len(ast.variables)}
DeclaredParameters == {ast.parameters[i].name : i \in 1..Len(ast.parameters)}

\* C12: Identifier(n) evaluates to the value bound to variable n when there is one,
\* else to the resolved default of parameter n when there is one, else to the string
\* n; the evaluation raises no error, and a variable wins over a parameter of the
\* same name.
C12_IdentifierResolution ==
  /\ (generated.called /\ Len(ast.nodes) = 1) => ~generated.threw
  /\ (GeneratedX /\ DeclaredX.type = "IdentifierExpression") =>
       EvaluatedX = (IF DeclaredX.name \in DeclaredVariables
                       THEN generator.variables[DeclaredX.name]
                     ELSE IF DeclaredX.name \in DeclaredParameters
                       THEN generator.parameters[DeclaredX.name].defaultValue
                     ELSE JSString(<<DeclaredX.name>>))

C12_Witness ==
  /\ GeneratedX
  /\ DeclaredX = IdentifierExpr("p")
  /\ ast.variables = <<VariableDeclaration("p", LiteralExpr(JSNumber(2)))>>
  /\ ast.parameters = <<ParameterDeclaration("p", "string", TRUE, LiteralExpr(JSNumber(5)))>>
  /\ EvaluatedX = JSNumber(2)

-----------------------------------------------------------------------------
(* C13 *)

\* C13: evaluateExpression returns a defined value, never undefined, for every
\* expression of the program: the value of every node parameter and of every
\* variable is defined, also when the expression is an identifier that names a
\* parameter declared without a default.
C13_EvaluatesToDefinedValue ==
  (generated.called /\ ~generated.threw) =>
    /\ \A i \in 1..Len(generated.workflow.nodes) :
         \A k \in 1..Len(generated.workflow.nodes[i].parameters) :
           generated.workflow.nodes[i].parameters[k].value # Undefined
    /\ \A i \in 1..Len(ast.variables) :
         generator.variables[ast.variables[i].name] # Undefined

-----------------------------------------------------------------------------
(* C14 *)

\* every parameter and every variable has a name of its own, as the AST pass demands
DistinctBindingNames ==
  /\ \A i, j \in 1..Len(ast.parameters) :
       i # j => ast.parameters[i].name # ast.parameters[j].name
  /\ \A i, j \in 1..Len(ast.variables) :
       i # j => ast.variables[i].name # ast.variables[j].name
  /\ DeclaredVariables \cap DeclaredParameters = {}

\* the place of the variable named n in the declarations, 0 when there is none
VariableIndex(n) ==
  IF n \in DeclaredVariables
  THEN CHOOSE i \in 1..Len(ast.variables) : ast.variables[i].name = n
  ELSE 0

\* what the claim says the variable declared at place i as Identifier(n) is bound to
BoundAsClaimed(i, n) ==
  IF n \in DeclaredParameters THEN generator.parameters[n].defaultValue
  ELSE IF VariableIndex(n) > 0 /\ VariableIndex(n) < i THEN generator.variables[n]
  ELSE JSString(<<n>>)

\* C14: in a generate call all parameters are bound and then all variables, each in
\* declaration order: a variable that references a parameter gets its resolved
\* default, one that references an earlier variable gets its value, one that
\* references a later variable gets the bare name as a string, and so does a
\* parameter default that references a variable; no error is raised.
C14_BindingOrder ==
  (generated.called /\ DistinctBindingNames) =>
    /\ (ast.nodes = <<>> => ~generated.threw)
    /\ \A i \in 1..Len(ast.variables) :
         ast.variables[i].value.type = "IdentifierExpression" =>
           generator.variables[ast.variables[i].name]
             = BoundAsClaimed(i, ast.variables[i].value.name)
    /\ \A i \in 1..Len(ast.parameters) :
         (/\ ast.parameters[i].hasDefault
          /\ ast.parameters[i].defaultValue.type = "IdentifierExpression"
          /\ ast.parameters[i].defaultValue.name \in DeclaredVariables) =>
           generator.parameters[ast.parameters[i].name].defaultValue
             = JSString(<<ast.parameters[i].defaultValue.name>>)

-----------------------------------------------------------------------------
(* C15 *)

\* the text a span is replaced by, as the claim orders the cases; a parameter is
\* rendered as its default or as the empty string, now( as the time of a call
SpanTexts(body) ==
  IF \E n \in DeclaredVariables : <<n>> = Trim(body)
    THEN {ToJSString(generator.variables[n]) : n \in {m \in DeclaredVariables : <<m>> = Trim(body)}}
  ELSE IF \E n \in DeclaredParameters : <<n>> = Trim(body)
    THEN UNION {{ToJSString(generator.parameters[n].defaultValue), <<>>} :
                  n \in {m \in DeclaredParameters : <<m>> = Trim(body)}}
  ELSE IF StartsWith(Trim(body), <<"n", "o", "w", "(">>)
    THEN {toISOString(t) : t \in 0..clock}
  ELSE IF StartsWith(Trim(body), <<"e", "n", "v", "(">>) THEN {<<"h">>}
  ELSE {<<"$", "{">> \o body \o <<"}">>}

\* C15: evaluateTemplate resolves a span, trimmed, as a variable of that name, else
\* as a parameter of that name, else as `now(`, else as `env(`, and leaves a span
\* that is none of these, and all text outside spans, unchanged.
C15_TemplateResolutionOrder ==
  GeneratedX =>
    \A parts \in TemplateParts :
      DeclaredX = TemplateExpr(TemplateText(parts)) =>
        \E text \in SpanTexts(parts[2]) :
          EvaluatedX = JSString(parts[1] \o text \o parts[3])

C15_Witness ==
  /\ GeneratedX
  /\ DeclaredX = TemplateExpr(<<"x", "$", "{", " ", "v", " ", "}", "y">>)
  /\ ast.variables = <<VariableDeclaration("v", LiteralExpr(JSNumber(1)))>>
  /\ EvaluatedX = JSString(<<"x", "1", "y">>)

-----------------------------------------------------------------------------
(* C16 *)

\* C16: for a parameter p with a default, the template "${p}" evaluates to the
\* string rendering of what Identifier(p) evaluates to, the resolved default,
\* whatever the default is, 0 and false included.
C16_ParameterSpanRendersDefault ==
  (/\ GeneratedX
   /\ DeclaredX = TemplateExpr(<<"$", "{", "p", "}">>)
   /\ "p" \in DeclaredParameters \ DeclaredVariables
   /\ \A i \in 1..Len(ast.parameters) : ast.parameters[i].hasDefault) =>
    EvaluatedX = JSString(ToJSString(generator.parameters["p"].defaultValue))

-----------------------------------------------------------------------------
(* C17 *)

\* what parse() gives on a source, on a Parser of its own
ParseOf(source) == parse(NewParserOn(tokenize(source)).tokens)

\* parse() has returned or thrown on the Parser constructed on input
ParseCalled == parser.constructed /\ parser.called

\* a workflow without the positions of its declarations
Unpositioned(workflow) ==
  LET Each(declarations) ==
        [i \in 1..Len(declarations) |-> At(declarations[i], [line |-> 0, column |-> 0])]
  IN [workflow EXCEPT !.parameters = Each(@), !.variables = Each(@), !.nodes = Each(@),
                      !.connections = Each(@)]

\* parse() returned, and the workflow it returned is the one of the source, the
\* positions of the declarations apart
ParsedAs(source) ==
  /\ ~parser.outcome.threw
  /\ ~ParseOf(source).threw
  /\ Unpositioned(parser.outcome.value) = Unpositioned(ParseOf(source).value)

\* C17: an array expression, an object expression or a node body of two or more
\* entries written without commas between them (a blank or a newline instead)
\* parses, and to the same AST as the same entries written with commas.
C17_CommasOptional ==
  ParseCalled =>
    \A elements \in ElementLists, separator \in Separators \ {Comma} :
      Len(elements) >= 2 =>
        /\ input = VariableSource(ArrayText(elements, separator)) =>
             ParsedAs(VariableSource(ArrayText(elements, Comma)))
        /\ input = VariableSource(ObjectText(elements, separator)) =>
             ParsedAs(VariableSource(ObjectText(elements, Comma)))
        /\ input = NodeSource(elements, separator) =>
             ParsedAs(NodeSource(elements, Comma))

-----------------------------------------------------------------------------
(* C18 *)

\* the sources the grammar has: one workflow, declarations of the grammar only
\* (arrays and objects with or without commas), the closing brace, the end of input
GrammaticalSources ==
  ExpressionSources
    \cup {WorkflowSource(lines, <<"}">>) : lines \in LineLists(GrammarDeclarations)}

\* C18: a source the grammar does not have fails with a ParseError, and parse()
\* returns no Program for it: so for tokens after the closing brace, for a missing
\* closing brace, for `==` written for `=`, and for characters no token has.
C18_ParsesOnlyTheGrammar ==
  input \notin GrammaticalSources =>
    /\ parser.threw => parser.error.name = "ParseError"
    /\ ParseCalled =>
         parser.outcome.threw /\ parser.outcome.error.name = "ParseError"

-----------------------------------------------------------------------------
(* C19 *)

\* a text without its i-th character
Without(text, i) == SubSeq(text, 1, i - 1) \o SubSeq(text, i + 1, Len(text))

\* the types and values of a token sequence
TypesAndValues(tokens) ==
  [i \in 1..Len(tokens) |-> [type |-> tokens[i].type, value |-> tokens[i].value]]

\* a text that holds no string and no comment: no quote, no slash
NoStringOrComment(text) == \A i \in 1..Len(text) : text[i] \notin {"\"", "'", "/"}

\* the i-th character of a text is one of those given to Type that starts no token
\* and is not skipped: #, a - that no > follows, a > that no - precedes
Unrecognized(text, i) ==
  \/ text[i] = "#"
  \/ text[i] = "-" /\ (i = Len(text) \/ text[i + 1] # ">")
  \/ text[i] = ">" /\ (i = 1 \/ text[i - 1] # "-")

Quotes(text) == {i \in 1..Len(text) : text[i] = "\""}

\* the i-th character of a text stands apart: after the start of the text, a blank
\* or a newline, so that no token ends at it, and before no skipped character, so
\* that it is no half of || or &&
Apart(text, i) ==
  /\ i = 1 \/ text[i - 1] \in {" ", "\n"}
  /\ i = Len(text) \/ text[i + 1] \notin SkippedCharacters

\* tokenize threw an error with a line and a column
ThrewWithPosition ==
  /\ lexer.outcome.threw
  /\ lexer.outcome.error.line >= 1
  /\ lexer.outcome.error.column >= 1

\* C19: outside strings and comments, tokenize on a text with one of * ? \ | &
\* standing apart at some place returns the tokens (types and values, EOF last) it
\* returns on the text without that character, whatever follows the character; a
\* text with another unrecognized character, or with a string that is not closed,
\* makes tokenize throw an error with a line and a column.
C19_SkippedCharacters ==
  lexer.called =>
    /\ NoStringOrComment(input) =>
         \A i \in 1..Len(input) :
           (/\ input[i] \in SkippedCharacters
            /\ Apart(input, i)
            /\ ~tokenize(Without(input, i)).threw) =>
             /\ ~lexer.outcome.threw
             /\ TypesAndValues(lexer.outcome.tokens)
                  = TypesAndValues(tokenize(Without(input, i)).tokens)
    /\ (NoStringOrComment(input) /\ \E i \in 1..Len(input) : Unrecognized(input, i)) =>
         ThrewWithPosition
    /\ Cardinality(Quotes(input)) % 2 = 1 => ThrewWithPosition

-----------------------------------------------------------------------------
(* C20 *)

\* the 1-based line and column of a position of a text
NewlinesBefore(text, position) == {j \in 1..(position - 1) : text[j] = "\n"}
LineOf(text, position) == 1 + Cardinality(NewlinesBefore(text, position))
ColumnOf(text, position) ==
  IF NewlinesBefore(text, position) = {} THEN position
  ELSE position - (CHOOSE j \in NewlinesBefore(text, position) :
                     \A k \in NewlinesBefore(text, position) : k <= j)

\* the first token the Parser keeps of those tokenize returned
FirstKept(tokens) ==
  CHOOSE i \in 1..Len(tokens) :
    /\ tokens[i].type \notin {"COMMENT", "NEWLINE"}
    /\ \A j \in 1..(i - 1) : tokens[j].type \in {"COMMENT", "NEWLINE"}

\* C20: every token tokenize returns carries the line and the column of its first
\* character in the source, on every line and for the two-character token -> too;
\* and a ParseError carries the line and the column of the first character of the
\* offending token (here the first token of the source, which is never `workflow`).
C20_TokenPositions ==
  /\ (lexer.called /\ ~lexer.outcome.threw) =>
       \A i \in 1..Len(lexer.outcome.tokens) :
         /\ lexer.outcome.tokens[i].line = LineOf(input, lexer.outcome.starts[i])
         /\ lexer.outcome.tokens[i].column = ColumnOf(input, lexer.outcome.starts[i])
  /\ (ParseCalled /\ parser.outcome.threw) =>
       /\ parser.outcome.error.line
            = LineOf(input, tokenize(input).starts[FirstKept(tokenize(input).tokens)])
       /\ parser.outcome.error.column
            = ColumnOf(input, tokenize(input).starts[FirstKept(tokenize(input).tokens)])

-----------------------------------------------------------------------------
(* What the claims about the node templates speak of *)

\* the source declares the one node a, of this type, with this one parameter
DeclaresOne(nodeType, key, token) ==
  /\ ast.parsed
  /\ ast.nodes = <<NodeDeclaration("a", nodeType,
                                   parseParametersFrom(<<[key |-> key, token |-> token]>>,
                                                       1, <<>>))>>

\* the nodes of the graphs compile and generate have made
Produced ==
  (IF result.hasWorkflow THEN Entries(result.workflow.nodes) ELSE {})
    \cup (IF generated.called /\ ~generated.threw THEN Entries(generated.workflow.nodes)
          ELSE {})

\* the conditions object of an If node
ConditionsOf(node) == ObjGet(node.parameters, "conditions")

-----------------------------------------------------------------------------
(* C21: for a flow.if node whose condition is the text `${x} >= 10`, x bound to    *)
(* nothing, the graph holds exactly one condition: its left value is the text      *)
(* `${x}`, its operation is largerEqual, its operator type is number and its right *)
(* value is the text `10`.                                                         *)

C21_GreaterOrEqualTen ==
  DeclaresOne("flow.if", "condition", Token("STRING", <<"$", "{", "x", "}", " ", ">", "=", " ", "1", "0">>)) =>
    \A node \in Produced :
      /\ ObjHas(node.parameters, "conditions")
      /\ Len(ConditionsOf(node).conditions) = 1
      /\ ConditionsOf(node).conditions[1].leftValue = <<"$", "{", "x", "}">>
      /\ ConditionsOf(node).conditions[1].operator
           = [type |-> "number", operation |-> "largerEqual"]
      /\ ConditionsOf(node).conditions[1].rightValue = <<"1", "0">>

C21_Witness ==
  /\ DeclaresOne("flow.if", "condition", Token("STRING", <<"$", "{", "x", "}", " ", ">", "=", " ", "1", "0">>))
  /\ Compiled
  /\ result.success
  /\ Produced # {}
  /\ ast.parameters = <<>> /\ ast.variables = <<>>

-----------------------------------------------------------------------------
(* C22: for a flow.if node whose condition contains `||`, the conditions object of *)
(* the graph has the combinator `or` and one condition for each clause between the *)
(* `||`; for a condition with `&&` and no `||` it has the combinator `and` and one *)
(* condition for each clause between the `&&`.                                     *)

\* the number of clauses the separator divides the text into
ClauseCount(text, separator) ==
  1 + Cardinality({i \in 1..Len(text) :
                     /\ i + Len(separator) - 1 <= Len(text)
                     /\ SubSeq(text, i, i + Len(separator) - 1) = separator})

\* the combinator and the number of conditions of the conditions object of a node
Combines(node, combinator, count) ==
  /\ ObjHas(node.parameters, "conditions")
  /\ ConditionsOf(node).combinator = combinator
  /\ Len(ConditionsOf(node).conditions) = count

C22_CombinatorAndClauses ==
  \A token \in ConditionTokens :
    (token.type = "STRING" /\ DeclaresOne("flow.if", "condition", token)) =>
      \A node \in Produced :
        IF Includes(token.value, <<"|", "|">>)
        THEN Combines(node, "or", ClauseCount(token.value, <<"|", "|">>))
        ELSE Includes(token.value, <<"&", "&">>) =>
               Combines(node, "and", ClauseCount(token.value, <<"&", "&">>))

-----------------------------------------------------------------------------
(* C23: the mapParameters of every registered template returns a parameter object *)
(* for every parameter map, whatever the types of its values, and never throws:   *)
(* on a source whose node types are all known, Generator.generate never fails and *)
(* Compiler.compile never reports a compilation error.                            *)

C23_TemplatesAreTotal ==
  /\ generated.called => ~generated.threw
  /\ Compiled => ~IsCompilationError(result.errors)

-----------------------------------------------------------------------------
(* C24: the request template emits sendBody and the body parameter list only when *)
(* a body is given and the method is POST, PUT or PATCH: for a node with a body   *)
(* and the method GET, or with a body and no method, the mapped parameters hold   *)
(* neither sendBody nor body parameters.                                          *)

\* the value the source gives the parameter of its one node, undefined without it
Declared(key) ==
  IF ObjHas(ast.nodes[1].parameters, key)
  THEN evaluateExpression(ObjGet(ast.nodes[1].parameters, key), NewGenerator(options), clock)
  ELSE Undefined

\* the source declares the one node a, a request
DeclaresRequest ==
  /\ ast.parsed
  /\ Len(ast.nodes) = 1
  /\ ast.nodes[1].type = "NodeDeclaration"
  /\ ast.nodes[1].nodeType = "http.request"

CarriesBody(method) == method \in {JSString(<<"P", "O", "S", "T">>), JSString(<<"P", "U", "T">>), JSString(<<"P", "A", "T", "C", "H">>)}

EmitsBody(node) ==
  \/ ObjHas(node.parameters, "sendBody")
  \/ ObjHas(node.parameters, "bodyParameters")
  \/ ObjHas(node.parameters, "body")

C24_BodyOnlyWithBodyMethods ==
  DeclaresRequest =>
    \A node \in Produced :
      EmitsBody(node) => (Truthy(Declared("body")) /\ CarriesBody(Declared("method")))

-----------------------------------------------------------------------------
(* C25: the schedule template classifies a cron expression of five fields by its  *)
(* shape: five fields that are each `*` or `*/1` give the every-minute interval,   *)
(* `0 * * * *` the hourly interval, `0 0 * * *` the daily interval, `*/N * * * *`  *)
(* an interval of N minutes; every other text, such as `0 9 * * *` or a text that  *)
(* has not five fields, is handed on unchanged and never rejected.                 *)

\* the interval of the rule of a Schedule Trigger node
IntervalOf(node) == ObjGet(node.parameters, "rule").interval[1]

\* the shapes the claim names
EveryMinute(cron) == \A i \in 1..Len(split(cron, " ")) : split(cron, " ")[i] \in {<<"*">>, <<"*", "/", "1">>}
Hourly(cron) == cron = <<"0", " ", "*", " ", "*", " ", "*", " ", "*">>
Daily(cron) == cron = <<"0", " ", "0", " ", "*", " ", "*", " ", "*">>
EveryMinutes(cron) ==
  /\ Len(split(cron, " ")) = 5
  /\ StartsWith(split(cron, " ")[1], <<"*", "/">>)
  /\ \A i \in 2..5 : split(cron, " ")[i] = <<"*">>
KnownShape(cron) ==
  /\ Len(split(cron, " ")) = 5
  /\ EveryMinute(cron) \/ Hourly(cron) \/ Daily(cron) \/ EveryMinutes(cron)

\* the interval holds the text of the expression
HandsOn(interval, cron) ==
  \E field \in DOMAIN interval \ {"field", "hoursInterval"} : interval[field] = cron

C25_CronShapes ==
  \A token \in CronTokens :
    (token.type = "STRING" /\ DeclaresOne("trigger.schedule", "cron", token)) =>
      /\ generated.called => ~generated.threw
      /\ \A node \in Produced :
           /\ ObjHas(node.parameters, "rule")
           /\ IF KnownShape(token.value)
              THEN /\ IntervalOf(node).field # "cronExpression"
                   /\ Hourly(token.value) => IntervalOf(node).field = "hours"
              ELSE HandsOn(IntervalOf(node), token.value)

-----------------------------------------------------------------------------
(* C26: every entry of the AST pass about one declaration (a duplicate parameter,  *)
(* a duplicate or colliding variable, a duplicate node, a dangling connection, an  *)
(* unconnected node) carries a line on which that declaration stands, not the line *)
(* of a token after it. The sources hold one declaration on a line.                *)

\* the entries of the result that the AST pass pushed
AstEntries ==
  Entries(result.errors \o result.warnings) \cap Entries(validateWorkflow(ast))

\* the workflow whose one declaration is the given line of the input, when that
\* line is a declaration
DeclaredOnLine(line) ==
  IF line \in 1..Len(split(input, "\n"))
  THEN programOf(NewParserOn(tokenize(WorkflowSource(<<split(input, "\n")[line]>>, <<"}">>))))
  ELSE [threw |-> TRUE]

\* the workflow declares what the entry speaks of
Concerns(workflow, entry) ==
  CASE entry.message = "Duplicate parameter name: " ->
         entry.subject \in NamesOf(workflow.parameters)
    [] entry.message \in {"Duplicate variable name: ",
                          "Variable conflicts with parameter name"} ->
         entry.subject \in NamesOf(workflow.variables)
    [] entry.message \in {"Duplicate node name: ",
                          "Node is not connected to any other nodes"} ->
         entry.subject \in NamesOf(workflow.nodes)
    [] entry.message = "Connection source node does not exist" ->
         \E i \in 1..Len(workflow.connections) :
           workflow.connections[i].source.node = entry.subject
    [] entry.message = "Connection target node does not exist" ->
         \E i \in 1..Len(workflow.connections) :
           workflow.connections[i].target.node = entry.subject
    [] OTHER -> FALSE

C26_DiagnosticLineIsOfDeclaration ==
  Compiled =>
    \A entry \in AstEntries :
      /\ ~DeclaredOnLine(entry.line).threw
      /\ Concerns(DeclaredOnLine(entry.line).program, entry)

-----------------------------------------------------------------------------
(* C27: Compiler.compile returns a CompilerResult for every source and every       *)
(* options value, also when the Lexer, the Parser, the Generator or the Validator  *)
(* throws; in every result success is true exactly when errors is empty, and a     *)
(* result with success true carries a workflow.                                    *)

-----------------------------------------------------------------------------
(* C28: in every result with success true, whatever the options, each key of the   *)
(* connections map and the target of each connection entry is the name of a node   *)
(* of the nodes list; with validate true the names of the nodes are pairwise       *)
(* distinct.                                                                       *)

\* the names of the nodes of a graph
NodeNamesOf(workflow) == {workflow.nodes[i].name : i \in 1..Len(workflow.nodes)}

\* the keys of the connections map of a graph
SourcesOf(workflow) == {workflow.connections[i].source : i \in 1..Len(workflow.connections)}

\* the targets of the connection entries of a graph
TargetsOf(workflow) ==
  UNION {UNION {UNION {{entry.node : entry \in Entries(slot.list)} :
                       slot \in Entries(type.outputs)} :
                type \in Entries(bySource.types)} :
         bySource \in Entries(workflow.connections)}

C28_ReferentialIntegrity ==
  (Compiled /\ result.success) =>
    /\ SourcesOf(result.workflow) \subseteq NodeNamesOf(result.workflow)
    /\ TargetsOf(result.workflow) \subseteq NodeNamesOf(result.workflow)
    /\ options.validate =>
         \A i \in 1..Len(result.workflow.nodes), j \in 1..Len(result.workflow.nodes) :
           i # j => result.workflow.nodes[i].name # result.workflow.nodes[j].name

C28_Witness ==
  /\ Compiled
  /\ result.success
  /\ options.validate
  /\ Len(result.workflow.nodes) = 2
  /\ SourcesOf(result.workflow) # {}
  /\ TargetsOf(result.workflow) # {}

-----------------------------------------------------------------------------
(* C29: in every graph Generator.generate returns, each list                       *)
(* connections[source][portType] is dense: every output index from 0 to the        *)
(* highest one used holds a list of connection entries, none is missing, also when *)
(* the only connection that leaves a node leaves its `false` port.                 *)

\* the lists connections[source][portType] of a graph
OutputLists(workflow) ==
  UNION {{type.outputs : type \in Entries(bySource.types)} :
         bySource \in Entries(workflow.connections)}

C29_OutputListsAreDense ==
  (generated.called /\ ~generated.threw) =>
    \A outputs \in OutputLists(generated.workflow) :
      \A index \in 1..Len(outputs) : ~outputs[index].hole

-----------------------------------------------------------------------------
(* C30: with autoLayout false, a Generator gives every node the position [0, 0],   *)
(* whatever startPosition and spacing are and however many nodes there are, and    *)
(* the layout cursor is not advanced.                                              *)

====
